---- MODULE Spec2Model ----
(***************************************************************************)
(* Model of src/postgres_downtime_probe.py: the DowntimeTracker, main and  *)
(* the probe_loop that feeds the tracker; and of the rebase test harness   *)
(* of src/src.                                                             *)
(*                                                                         *)
(* The specifications share the variables:                                 *)
(*   Spec         main and probe_loop, one action per statement group,     *)
(*                with the signal handler interleaved at every point of    *)
(*                probe_loop (signals that arrive before the handler is    *)
(*                installed end the process and are left out);             *)
(*   TrackerSpec  a DowntimeTracker driven by arbitrary record / finalize  *)
(*                calls (any timestamps, any order);                       *)
(*   LogSpec      one log file opened, appended to and closed by one run   *)
(*                after another;                                           *)
(*   LiveSpec     Spec with weak fairness on the program's own steps.      *)
(*   RebaseSpec   the automated rebase tests of src/src: add commits to    *)
(*                the community repository, sync, validate;                *)
(*   MenuSpec     the menu loop of the manual test runner.                 *)
(*                                                                         *)
(* Instants are naturals and the system clock does not step backwards;     *)
(* two readings may be equal.  What the program holds is the value of      *)
(* datetime.now(LOCAL_TZ), which Python orders by local wall time: see     *)
(* LocalTime.  Failures of the store calls (connect, ensure_table, insert, *)
(* truncate, close) and of closing the log file are nondeterministic; a    *)
(* write to the log file is taken not to fail.                             *)
(***************************************************************************)
EXTENDS Integers, Sequences, FiniteSets

\* ------------------------------------------------------------------ bounds
MaxTime == 3
MaxCalls == 4
MaxIter == 3
MaxCeiling == 2
MaxDuration == 2
MaxInterval == 1

\* Python's None in a numeric slot (timestamp, connection handle, ceiling,
\* sleep argument) and in a text slot (error message, exception in flight).
None == -1
NoneText == "None"

VARIABLES
    pc,                 \* position in probe_loop
    stop_flag,          \* stop_flag["stop"]
    max_attempts,       \* args.max_attempts (None when not given)
    interval,           \* args.interval
    stats,              \* ProbeStats
    downtime_tracker,   \* DowntimeTracker: [intervals, current_start]
    conn,               \* connection handle, None when absent
    insert_stmt,        \* TRUE when built, FALSE for None
    bootstrap_attempted,
    success,
    error_message,
    exc,                \* text of the exception in flight, NoneText if none
    attempt_time,
    duration,
    sleep_time,         \* argument of the last time.sleep call, None if it was skipped
    log,                \* rows written by log_result, in order
    summary,            \* << >> before summarize, <<report>> after
    now,                \* wall clock
    next_conn,          \* identity of the next connection open_connection returns
    closed,             \* handles on which close() has been called
    ensured,            \* handles on which ensure_table has been issued, in order
    truncated,          \* handles on which truncate_table has been issued
    calls,              \* history: the record / finalize calls made on the tracker
    iterations,         \* history: number of loop iterations entered
    attempts,           \* history: number of attempts begun (ceiling check passed)
    signalled_at,       \* history: phase in which the first signal arrived, "" if none
    create_table_only,  \* args.create_table_only
    main_conn,          \* main's own connection handle, None before it is opened
    exit_status,        \* what main returned, None while it has not returned
    close_raised,       \* history: conn.close() raised while this attempt's failure was handled
    log_file,           \* lines of the log file that reached the disk, in order
    log_buffer,         \* rows handed to the csv writer and not yet flushed
    log_open,           \* TRUE while a run holds the log file open
    runs,               \* history: number of times init_log_writer has opened the file
    truncate_raised,    \* history: the truncate_table call of the finally block raised
    repos,              \* the community and enterprise repositories of the sync tests
    harness             \* locals of the test function or menu loop that is running

vars == <<pc, stop_flag, max_attempts, interval, stats, downtime_tracker, conn,
          insert_stmt, bootstrap_attempted, success, error_message, exc,
          attempt_time, duration, sleep_time, log, summary, now, next_conn,
          closed, ensured, truncated, calls, iterations, attempts,
          signalled_at, create_table_only, main_conn, exit_status,
          close_raised, log_file, log_buffer, log_open, runs,
          truncate_raised, repos, harness>>

loopVars == <<pc, stop_flag, max_attempts, interval, stats, conn, insert_stmt,
              bootstrap_attempted, success, error_message, exc, attempt_time,
              duration, sleep_time, log, summary, now, next_conn, closed,
              ensured, truncated, iterations, attempts, signalled_at,
              create_table_only, main_conn, exit_status, close_raised,
              log_file, log_buffer, log_open, runs, truncate_raised,
              repos, harness>>

\* ------------------------------------------------------- DowntimeTracker

\* DowntimeTracker.__init__
NewTracker == [intervals |-> << >>, current_start |-> None]

\* Mutants of record, one per branch a slip could change.
\* A later failure moves the start of the open interval.
record_reanchor(tr, event_time, ok) ==
    IF ok
    THEN IF tr.current_start # None
         THEN [intervals |-> Append(tr.intervals, <<tr.current_start, event_time>>),
               current_start |-> None]
         ELSE tr
    ELSE [tr EXCEPT !.current_start = event_time]

\* A success closes the interval but leaves the tracker Down.
record_no_reset(tr, event_time, ok) ==
    IF ok
    THEN IF tr.current_start # None
         THEN [tr EXCEPT !.intervals = Append(tr.intervals, <<tr.current_start, event_time>>)]
         ELSE tr
    ELSE IF tr.current_start = None
         THEN [tr EXCEPT !.current_start = event_time]
         ELSE tr

\* Every call made while Down closes an interval, a failure reopening one.
record_emit_on_failure(tr, event_time, ok) ==
    IF tr.current_start # None
    THEN [intervals |-> Append(tr.intervals, <<tr.current_start, event_time>>),
          current_start |-> IF ok THEN None ELSE event_time]
    ELSE IF ok THEN tr ELSE [tr EXCEPT !.current_start = event_time]

\* A success closes an interval whether or not one is open.
record_unguarded_success(tr, event_time, ok) ==
    IF ok
    THEN [intervals |-> Append(tr.intervals, <<tr.current_start, event_time>>),
          current_start |-> None]
    ELSE IF tr.current_start = None
         THEN [tr EXCEPT !.current_start = event_time]
         ELSE tr

\* A closed interval is put at the head of the list.
record_prepend(tr, event_time, ok) ==
    IF ok
    THEN IF tr.current_start # None
         THEN [intervals |-> <<(<<tr.current_start, event_time>>)>> \o tr.intervals,
               current_start |-> None]
         ELSE tr
    ELSE IF tr.current_start = None
         THEN [tr EXCEPT !.current_start = event_time]
         ELSE tr

\* DowntimeTracker.record(event_time, success)
record(tr, event_time, ok) ==
    IF ok
    THEN IF tr.current_start # None
         THEN [intervals |-> Append(tr.intervals, <<tr.current_start, event_time>>),
               current_start |-> None]
         ELSE tr
    ELSE IF tr.current_start = None
         THEN [tr EXCEPT !.current_start = event_time]
         ELSE tr

\* Mutant: finalize closes nothing.
finalize_noop(tr, final_time) == tr

\* Mutant: finalize closes the interval but leaves the tracker Down.
finalize_no_reset(tr, final_time) ==
    IF tr.current_start # None
    THEN [tr EXCEPT !.intervals = Append(tr.intervals, <<tr.current_start, final_time>>)]
    ELSE tr

\* DowntimeTracker.finalize(final_time)
finalize(tr, final_time) ==
    IF tr.current_start # None
    THEN [intervals |-> Append(tr.intervals, <<tr.current_start, final_time>>),
          current_start |-> None]
    ELSE tr

\* History entries for the calls made on the tracker.
RecordCall(t, ok) == [op |-> "record", time |-> t, success |-> ok]
FinalizeCall(t) == [op |-> "finalize", time |-> t, success |-> TRUE]

\* ------------------------------------------- repositories of the sync tests

\* A commit is <<origin, number, generation>>: "c" for a commit made in the
\* community repository, "e" for one made in the enterprise repository; a
\* rebase rewrites the enterprise commits, which gives them a new generation.
\* A repository is its first-parent history, oldest first; HEAD is the last.
Commit(origin, n, gen) == <<origin, n, gen>>

\* setup_repos.py, setup_test_repos (lines 36-106): the community repository
\* has the initial commit and three features; the enterprise repository is a
\* clone with three commits of its own on top, and has fetched community.
setup_test_repos ==
    [community |-> [i \in 1..4 |-> Commit("c", i, 0)],
     enterprise |-> [i \in 1..4 |-> Commit("c", i, 0)] \o
                    [i \in 1..3 |-> Commit("e", i, 0)],
     fetched |-> [i \in 1..4 |-> Commit("c", i, 0)],
     is_clean |-> TRUE,
     rebases |-> 0]

\* ------------------------------------------------- TrackerSpec (harness)

TrackerInit ==
    /\ pc = "tracker"
    /\ stop_flag = FALSE
    /\ max_attempts = None
    /\ interval = 1
    /\ stats = [total_attempts |-> 0, success_count |-> 0, failure_count |-> 0]
    /\ downtime_tracker = NewTracker
    /\ conn = None
    /\ insert_stmt = FALSE
    /\ bootstrap_attempted = FALSE
    /\ success = FALSE
    /\ error_message = NoneText
    /\ exc = NoneText
    /\ attempt_time = None
    /\ duration = 0
    /\ sleep_time = None
    /\ log = << >>
    /\ summary = << >>
    /\ now = 0
    /\ next_conn = 1
    /\ closed = {}
    /\ ensured = << >>
    /\ truncated = {}
    /\ calls = << >>
    /\ iterations = 0
    /\ attempts = 0
    /\ signalled_at = ""
    /\ create_table_only = FALSE
    /\ main_conn = None
    /\ exit_status = None
    /\ close_raised = FALSE
    /\ log_file = << >>
    /\ log_buffer = << >>
    /\ log_open = FALSE
    /\ runs = 0
    /\ truncate_raised = FALSE
    /\ repos = setup_test_repos
    /\ harness = << >>

TRecord ==
    /\ pc = "tracker"
    /\ Len(calls) < MaxCalls
    /\ \E t \in 0..MaxTime, ok \in BOOLEAN :
        /\ downtime_tracker' = record(downtime_tracker, t, ok)
        /\ calls' = Append(calls, RecordCall(t, ok))
    /\ UNCHANGED loopVars

TFinalize ==
    /\ pc = "tracker"
    /\ Len(calls) < MaxCalls
    /\ \E t \in 0..MaxTime :
        /\ downtime_tracker' = finalize(downtime_tracker, t)
        /\ calls' = Append(calls, FinalizeCall(t))
    /\ UNCHANGED loopVars

TrackerNext == TRecord \/ TFinalize

TrackerSpec == TrackerInit /\ [][TrackerNext]_vars

\* ------------------------------------------------------------ probe_loop

Min(a, b) == IF a < b THEN a ELSE b

\* Python truthiness of args.max_attempts: None and 0 are false.
Truthy(n) == n # None /\ n # 0

\* datetime.now(LOCAL_TZ): a reading not before the previous one.
Readings == {Min(now + d, MaxTime) : d \in 0..1}

\* datetime.now(LOCAL_TZ) with LOCAL_TZ = ZoneInfo("America/New_York") (line 36):
\* an aware datetime whose tzinfo is always that one object.  Python compares
\* and subtracts two such values by their local wall time, ignoring the offset,
\* so the value the program works with is the wall time of the instant.  At
\* the instant DstEnd daylight saving ends and the wall time is set back by
\* DstShift; before it the offset is DstShift larger.
DstEnd == 2
DstShift == 2
LocalTime(t) == IF t < DstEnd THEN t + DstShift ELSE t

\* Texts of the exceptions the store calls raise.
ConnectErrors == {"connection refused"}
BootstrapErrors == {"create table failed"}
InsertErrors == {"insert failed"}

\* State when main starts, its arguments parsed (line 335).  --interval is
\* MaxInterval clock units; an attempt may take less, as long or longer
\* (see MaxDuration).
Init ==
    /\ pc = "main_connect"
    /\ stop_flag = FALSE
    /\ max_attempts \in {None} \cup (0..MaxCeiling)
    /\ interval = MaxInterval
    /\ stats = [total_attempts |-> 0, success_count |-> 0, failure_count |-> 0]
    /\ downtime_tracker = NewTracker
    /\ conn = None
    /\ insert_stmt = FALSE
    /\ bootstrap_attempted = FALSE
    /\ success = FALSE
    /\ error_message = NoneText
    /\ exc = NoneText
    /\ attempt_time = None
    /\ duration = 0
    /\ sleep_time = None
    /\ log = << >>
    /\ summary = << >>
    /\ now = 0
    /\ next_conn = 1
    /\ closed = {}
    /\ ensured = << >>
    /\ truncated = {}
    /\ calls = << >>
    /\ iterations = 0
    /\ attempts = 0
    /\ signalled_at = ""
    /\ create_table_only \in BOOLEAN
    /\ main_conn = None
    /\ exit_status = None
    /\ close_raised = FALSE
    /\ log_file = << >>
    /\ log_buffer = << >>
    /\ log_open = FALSE
    /\ runs = 0
    /\ truncate_raised = FALSE
    /\ repos = setup_test_repos
    /\ harness = << >>

\* Positions of main outside probe_loop; the handler is not installed there.
MainOnly == {"main_connect", "main_setup", "main_close", "main_branch", "enter",
             "main_exit", "main_raised", "exit"}

\* Mutant: the failure of the first connection is reported but main goes on
\* into probe_loop, which would connect by itself.
MainConnect_falls_through ==
    /\ pc = "main_connect"
    /\ \/ /\ main_conn' = next_conn
          /\ next_conn' = next_conn + 1
          /\ pc' = "main_setup"
       \/ /\ \E e \in ConnectErrors : TRUE
          /\ pc' = "enter"
          /\ UNCHANGED <<main_conn, next_conn>>
    /\ UNCHANGED <<stop_flag, max_attempts, interval, stats, downtime_tracker,
                   conn, insert_stmt, bootstrap_attempted, success,
                   error_message, exc, attempt_time, duration, sleep_time, log,
                   summary, now, closed, ensured, truncated, calls, iterations,
                   attempts, signalled_at, create_table_only, exit_status,
                   close_raised, log_file, log_buffer, log_open, runs,
                   truncate_raised, repos, harness>>

\* lines 338-342: the first connection; main returns 2 when it cannot be opened
MainConnect ==
    /\ pc = "main_connect"
    /\ \/ /\ main_conn' = next_conn
          /\ next_conn' = next_conn + 1
          /\ pc' = "main_setup"
          /\ UNCHANGED exit_status
       \/ /\ \E e \in ConnectErrors : TRUE
          /\ exit_status' = 2
          /\ pc' = "main_exit"
          /\ UNCHANGED <<main_conn, next_conn>>
    /\ UNCHANGED <<stop_flag, max_attempts, interval, stats, downtime_tracker,
                   conn, insert_stmt, bootstrap_attempted, success,
                   error_message, exc, attempt_time, duration, sleep_time, log,
                   summary, now, closed, ensured, truncated, calls, iterations,
                   attempts, signalled_at, create_table_only,
                   close_raised, log_file, log_buffer, log_open, runs,
                   truncate_raised, repos, harness>>

\* lines 344-350: ensure_table, then truncate_table, on main's connection
MainSetup ==
    /\ pc = "main_setup"
    /\ ensured' = Append(ensured, main_conn)
    /\ \/ /\ \E e \in BootstrapErrors : exc' = e
          /\ UNCHANGED truncated
       \/ /\ truncated' = truncated \cup {main_conn}
          /\ \/ exc' = "truncate failed"
             \/ UNCHANGED exc
    /\ pc' = "main_close"
    /\ UNCHANGED <<stop_flag, max_attempts, interval, stats, downtime_tracker,
                   conn, insert_stmt, bootstrap_attempted, success,
                   error_message, attempt_time, duration, sleep_time, log,
                   summary, now, next_conn, closed, calls, iterations, attempts,
                   signalled_at, create_table_only, main_conn, exit_status,
                   close_raised, log_file, log_buffer, log_open, runs,
                   truncate_raised, repos, harness>>

\* Mutant: main closes its connection only when setup raised.
MainClose_leak ==
    /\ pc = "main_close"
    /\ closed' = IF exc # NoneText THEN closed \cup {main_conn} ELSE closed
    /\ \/ /\ exc' = "connection close failed"
          /\ pc' = "main_raised"
       \/ /\ pc' = IF exc # NoneText THEN "main_raised" ELSE "main_branch"
          /\ UNCHANGED exc
    /\ UNCHANGED <<stop_flag, max_attempts, interval, stats, downtime_tracker,
                   conn, insert_stmt, bootstrap_attempted, success,
                   error_message, attempt_time, duration, sleep_time, log,
                   summary, now, next_conn, ensured, truncated, calls,
                   iterations, attempts, signalled_at, create_table_only,
                   main_conn, exit_status,
                   close_raised, log_file, log_buffer, log_open, runs,
                   truncate_raised, repos, harness>>

\* lines 351-352: finally: conn.close(); a pending or new exception leaves main
MainClose ==
    /\ pc = "main_close"
    /\ closed' = closed \cup {main_conn}
    /\ \/ /\ exc' = "connection close failed"
          /\ pc' = "main_raised"
       \/ /\ pc' = IF exc # NoneText THEN "main_raised" ELSE "main_branch"
          /\ UNCHANGED exc
    /\ UNCHANGED <<stop_flag, max_attempts, interval, stats, downtime_tracker,
                   conn, insert_stmt, bootstrap_attempted, success,
                   error_message, attempt_time, duration, sleep_time, log,
                   summary, now, next_conn, ensured, truncated, calls,
                   iterations, attempts, signalled_at, create_table_only,
                   main_conn, exit_status,
                   close_raised, log_file, log_buffer, log_open, runs,
                   truncate_raised, repos, harness>>

\* lines 354-357: return 0 for --create-table-only, else call probe_loop
MainBranch ==
    /\ pc = "main_branch"
    /\ IF create_table_only
       THEN /\ exit_status' = 0
            /\ pc' = "main_exit"
       ELSE /\ pc' = "enter"
            /\ UNCHANGED exit_status
    /\ UNCHANGED <<stop_flag, max_attempts, interval, stats, downtime_tracker,
                   conn, insert_stmt, bootstrap_attempted, success,
                   error_message, exc, attempt_time, duration, sleep_time, log,
                   summary, now, next_conn, closed, ensured, truncated, calls,
                   iterations, attempts, signalled_at, create_table_only,
                   main_conn,
                   close_raised, log_file, log_buffer, log_open, runs,
                   truncate_raised, repos, harness>>

\* Line 214: the status column of the header row.
Header == "status"

\* init_log_writer, lines 209-217: file_exists is "the path exists and its size
\* is above zero", so an absent file and an empty one are the same case; the
\* header is written and flushed only then.  The file is opened for append.
\* Mutant: the header is written whatever the file holds.
init_log_writer_always_header(file) == file \o <<Header>>

init_log_writer(file) ==
    LET file_exists == Len(file) > 0
    IN  IF file_exists THEN file ELSE file \o <<Header>>

\* lines 240-252: handler installed, log opened, stats and tracker created,
\* conn = None, bootstrap_attempted = False
ProbeLoopEntry ==
    /\ pc = "enter"
    /\ stop_flag' = FALSE
    /\ stats' = [total_attempts |-> 0, success_count |-> 0, failure_count |-> 0]
    /\ downtime_tracker' = NewTracker
    /\ insert_stmt' = FALSE
    /\ conn' = None
    /\ bootstrap_attempted' = FALSE
    /\ log_file' = init_log_writer(log_file)
    /\ log_buffer' = << >>
    /\ log_open' = TRUE
    /\ runs' = runs + 1
    /\ pc' = "while"
    /\ UNCHANGED <<max_attempts, interval, success, error_message, exc,
                   attempt_time, duration, sleep_time, log, summary, now,
                   next_conn, closed, ensured, truncated, calls, iterations,
                   attempts, signalled_at, create_table_only, main_conn,
                   exit_status,
                   close_raised,
                   truncate_raised, repos, harness>>

\* line 358: return 0 once probe_loop has returned
MainReturn ==
    /\ pc = "done"
    /\ exit_status' = 0
    /\ pc' = "exit"
    /\ UNCHANGED <<stop_flag, max_attempts, interval, stats, downtime_tracker,
                   conn, insert_stmt, bootstrap_attempted, success,
                   error_message, exc, attempt_time, duration, sleep_time, log,
                   summary, now, next_conn, closed, ensured, truncated, calls,
                   iterations, attempts, signalled_at, create_table_only,
                   main_conn,
                   close_raised, log_file, log_buffer, log_open, runs,
                   truncate_raised, repos, harness>>

\* Where in an iteration a position lies (for the history of the first signal).
Phase(p) ==
    CASE p \in {"while", "tick", "ceiling"} -> "before attempt"
      [] p \in {"connect", "bootstrap", "insert", "except"} -> "during attempt"
      [] p \in {"count", "record", "log"} -> "bookkeeping"
      [] p = "sleep" -> "sleep"
      [] OTHER -> "after loop"

\* Mutant: the signal interrupts the iteration in flight (as the default
\* SIGINT disposition would) instead of only setting the flag.
handler_abort(signum) ==
    /\ pc \notin MainOnly \cup {"done", "raised"}
    /\ stop_flag' = TRUE
    /\ signalled_at' = IF stop_flag THEN signalled_at ELSE Phase(pc)
    /\ pc' = IF pc \in {"done", "raised", "finally", "truncate", "logclose",
                        "connclose", "summarize"}
             THEN pc ELSE "finally"
    /\ UNCHANGED <<max_attempts, interval, stats, downtime_tracker, conn,
                   insert_stmt, bootstrap_attempted, success, error_message, exc,
                   attempt_time, duration, sleep_time, log, summary, now,
                   next_conn, closed, ensured, truncated, calls, iterations,
                   attempts,
                   create_table_only, main_conn, exit_status,
                   close_raised, log_file, log_buffer, log_open, runs,
                   truncate_raised, repos, harness>>

\* Mutant: SIGTERM, unlike SIGINT, also leaves the loop at once.
handler_sigterm_breaks(signum) ==
    /\ pc \notin MainOnly \cup {"done", "raised"}
    /\ stop_flag' = TRUE
    /\ signalled_at' = IF stop_flag THEN signalled_at ELSE Phase(pc)
    /\ pc' = IF signum = "SIGTERM" /\ pc \in {"connect", "bootstrap", "insert",
                                            "except", "count", "record",
                                            "log", "sleep"}
             THEN "finally" ELSE pc
    /\ UNCHANGED <<max_attempts, interval, stats, downtime_tracker, conn,
                   insert_stmt, bootstrap_attempted, success, error_message, exc,
                   attempt_time, duration, sleep_time, log, summary, now,
                   next_conn, closed, ensured, truncated, calls, iterations,
                   attempts,
                   create_table_only, main_conn, exit_status,
                   close_raised, log_file, log_buffer, log_open, runs,
                   truncate_raised, repos, harness>>

\* The handler installed by setup_signal_handler, for SIGINT and SIGTERM.
handler(signum) ==
    /\ pc \notin MainOnly \cup {"done", "raised"}
    /\ stop_flag' = TRUE
    /\ signalled_at' = IF stop_flag THEN signalled_at ELSE Phase(pc)
    /\ UNCHANGED <<pc, max_attempts, interval, stats, downtime_tracker, conn,
                   insert_stmt, bootstrap_attempted, success, error_message, exc,
                   attempt_time, duration, sleep_time, log, summary, now,
                   next_conn, closed, ensured, truncated, calls, iterations,
                   attempts,
                   create_table_only, main_conn, exit_status,
                   close_raised, log_file, log_buffer, log_open, runs,
                   truncate_raised, repos, harness>>

Signal == \E signum \in {"SIGINT", "SIGTERM"} : handler(signum)

\* line 255: while not stop_flag["stop"]
WhileCheck ==
    /\ pc = "while"
    /\ IF stop_flag
       THEN /\ pc' = "finally"
            /\ UNCHANGED iterations
       ELSE /\ iterations < MaxIter
            /\ pc' = "tick"
            /\ iterations' = iterations + 1
    /\ UNCHANGED <<stop_flag, max_attempts, interval, stats, downtime_tracker,
                   conn, insert_stmt, bootstrap_attempted, success,
                   error_message, exc, attempt_time, duration, sleep_time, log,
                   summary, now, next_conn, closed, ensured, truncated, calls,
                   attempts, signalled_at,
                   create_table_only, main_conn, exit_status,
                   close_raised, log_file, log_buffer, log_open, runs,
                   truncate_raised, repos, harness>>

\* lines 256-257: iteration_start, attempt_time = datetime.now(LOCAL_TZ)
Tick ==
    /\ pc = "tick"
    /\ \E t \in Readings :
        /\ now' = t
        /\ attempt_time' = LocalTime(t)
    /\ pc' = "ceiling"
    /\ UNCHANGED <<stop_flag, max_attempts, interval, stats, downtime_tracker,
                   conn, insert_stmt, bootstrap_attempted, success,
                   error_message, exc, duration, sleep_time, log, summary,
                   next_conn, closed, ensured, truncated, calls, iterations,
                   attempts, signalled_at,
                   create_table_only, main_conn, exit_status,
                   close_raised, log_file, log_buffer, log_open, runs,
                   truncate_raised, repos, harness>>

\* Mutant: the ceiling test reads > where the code reads >=.
Ceiling_off_by_one ==
    /\ pc = "ceiling"
    /\ IF Truthy(max_attempts) /\ stats.total_attempts > max_attempts
       THEN /\ pc' = "finally"
            /\ UNCHANGED <<success, error_message, attempts>>
       ELSE /\ pc' = "connect"
            /\ success' = FALSE
            /\ error_message' = NoneText
            /\ attempts' = attempts + 1
    /\ UNCHANGED <<stop_flag, max_attempts, interval, stats, downtime_tracker,
                   conn, insert_stmt, bootstrap_attempted, exc, attempt_time,
                   duration, sleep_time, log, summary, now, next_conn, closed,
                   ensured, truncated, calls, iterations, signalled_at,
                   create_table_only, main_conn, exit_status,
                   close_raised, log_file, log_buffer, log_open, runs,
                   truncate_raised, repos, harness>>

\* Mutant: the ceiling is compared with the number of successes.
Ceiling_counts_successes ==
    /\ pc = "ceiling"
    /\ IF Truthy(max_attempts) /\ stats.success_count >= max_attempts
       THEN /\ pc' = "finally"
            /\ UNCHANGED <<success, error_message, attempts>>
       ELSE /\ pc' = "connect"
            /\ success' = FALSE
            /\ error_message' = NoneText
            /\ attempts' = attempts + 1
    /\ UNCHANGED <<stop_flag, max_attempts, interval, stats, downtime_tracker,
                   conn, insert_stmt, bootstrap_attempted, exc, attempt_time,
                   duration, sleep_time, log, summary, now, next_conn, closed,
                   ensured, truncated, calls, iterations,
                   signalled_at,
                   create_table_only, main_conn, exit_status,
                   close_raised, log_file, log_buffer, log_open, runs,
                   truncate_raised, repos, harness>>

\* Mutant: the ceiling is tested against None, so 0 is a ceiling too.
Ceiling_zero_is_ceiling ==
    /\ pc = "ceiling"
    /\ IF max_attempts # None /\ stats.total_attempts >= max_attempts
       THEN /\ pc' = "finally"
            /\ UNCHANGED <<success, error_message, attempts>>
       ELSE /\ pc' = "connect"
            /\ success' = FALSE
            /\ error_message' = NoneText
            /\ attempts' = attempts + 1
    /\ UNCHANGED <<stop_flag, max_attempts, interval, stats, downtime_tracker,
                   conn, insert_stmt, bootstrap_attempted, exc, attempt_time,
                   duration, sleep_time, log, summary, now, next_conn, closed,
                   ensured, truncated, calls, iterations,
                   signalled_at,
                   create_table_only, main_conn, exit_status,
                   close_raised, log_file, log_buffer, log_open, runs,
                   truncate_raised, repos, harness>>

\* lines 258-262: the attempt ceiling, then success = False, error_message = None
Ceiling ==
    /\ pc = "ceiling"
    /\ IF Truthy(max_attempts) /\ stats.total_attempts >= max_attempts
       THEN /\ pc' = "finally"
            /\ UNCHANGED <<success, error_message, attempts>>
       ELSE /\ pc' = "connect"
            /\ success' = FALSE
            /\ error_message' = NoneText
            /\ attempts' = attempts + 1
    /\ UNCHANGED <<stop_flag, max_attempts, interval, stats, downtime_tracker,
                   conn, insert_stmt, bootstrap_attempted, exc, attempt_time,
                   duration, sleep_time, log, summary, now, next_conn, closed,
                   ensured, truncated, calls, iterations,
                   signalled_at,
                   create_table_only, main_conn, exit_status,
                   close_raised, log_file, log_buffer, log_open, runs,
                   truncate_raised, repos, harness>>

\* lines 265-267: if conn is None: conn = open_connection(args); build_insert
Connect ==
    /\ pc = "connect"
    /\ IF conn = None
       THEN \/ /\ conn' = next_conn
               /\ next_conn' = next_conn + 1
               /\ insert_stmt' = TRUE
               /\ pc' = "bootstrap"
               /\ UNCHANGED exc
            \/ /\ \E e \in ConnectErrors : exc' = e
               /\ pc' = "except"
               /\ UNCHANGED <<conn, next_conn, insert_stmt>>
       ELSE /\ pc' = "bootstrap"
            /\ UNCHANGED <<conn, next_conn, insert_stmt, exc>>
    /\ UNCHANGED <<stop_flag, max_attempts, interval, stats, downtime_tracker,
                   bootstrap_attempted, success, error_message, attempt_time,
                   duration, sleep_time, log, summary, now, closed, ensured,
                   truncated, calls, iterations,
                   attempts, signalled_at,
                   create_table_only, main_conn, exit_status,
                   close_raised, log_file, log_buffer, log_open, runs,
                   truncate_raised, repos, harness>>

\* Mutant: the flag is never set, so ensure_table is issued on every iteration.
Bootstrap_never_marks ==
    /\ pc = "bootstrap"
    /\ ensured' = Append(ensured, conn)
    /\ \/ /\ pc' = "insert"
          /\ UNCHANGED exc
       \/ /\ \E e \in BootstrapErrors : exc' = e
          /\ pc' = "except"
    /\ UNCHANGED <<stop_flag, max_attempts, interval, stats, downtime_tracker,
                   conn, insert_stmt, bootstrap_attempted, success,
                   error_message, attempt_time, duration, sleep_time, log,
                   summary, now, next_conn, closed, truncated, calls,
                   iterations, attempts, signalled_at, create_table_only,
                   main_conn, exit_status,
                   close_raised, log_file, log_buffer, log_open, runs,
                   truncate_raised, repos, harness>>

\* Mutant: the flag is set before ensure_table is called, so a failed creation
\* is not tried again.
Bootstrap_mark_first ==
    /\ pc = "bootstrap"
    /\ IF ~bootstrap_attempted
       THEN /\ ensured' = Append(ensured, conn)
            /\ bootstrap_attempted' = TRUE
            /\ \/ /\ pc' = "insert"
                  /\ UNCHANGED exc
               \/ /\ \E e \in BootstrapErrors : exc' = e
                  /\ pc' = "except"
       ELSE /\ pc' = "insert"
            /\ UNCHANGED <<ensured, bootstrap_attempted, exc>>
    /\ UNCHANGED <<stop_flag, max_attempts, interval, stats, downtime_tracker,
                   conn, insert_stmt, success, error_message, attempt_time,
                   duration, sleep_time, log, summary, now, next_conn, closed,
                   truncated, calls, iterations, attempts, signalled_at,
                   create_table_only, main_conn, exit_status,
                   close_raised, log_file, log_buffer, log_open, runs,
                   truncate_raised, repos, harness>>

\* lines 268-270: if not bootstrap_attempted: ensure_table(conn, ...)
Bootstrap ==
    /\ pc = "bootstrap"
    /\ IF ~bootstrap_attempted
       THEN /\ ensured' = Append(ensured, conn)
            /\ \/ /\ bootstrap_attempted' = TRUE
                  /\ pc' = "insert"
                  /\ UNCHANGED exc
               \/ /\ \E e \in BootstrapErrors : exc' = e
                  /\ pc' = "except"
                  /\ UNCHANGED bootstrap_attempted
       ELSE /\ pc' = "insert"
            /\ UNCHANGED <<ensured, bootstrap_attempted, exc>>
    /\ UNCHANGED <<stop_flag, max_attempts, interval, stats, downtime_tracker,
                   conn, insert_stmt, success, error_message, attempt_time,
                   duration, sleep_time, log, summary, now, next_conn, closed,
                   truncated, calls, iterations,
                   attempts, signalled_at,
                   create_table_only, main_conn, exit_status,
                   close_raised, log_file, log_buffer, log_open, runs,
                   truncate_raised, repos, harness>>

\* lines 272-276: cur.execute(insert_stmt, ...); success = True; success_count += 1
Insert ==
    /\ pc = "insert"
    /\ \/ /\ success' = TRUE
          /\ stats' = [stats EXCEPT !.success_count = @ + 1]
          /\ pc' = "count"
          /\ UNCHANGED exc
       \/ /\ \E e \in InsertErrors : exc' = e
          /\ pc' = "except"
          /\ UNCHANGED <<success, stats>>
    /\ UNCHANGED <<stop_flag, max_attempts, interval, downtime_tracker, conn,
                   insert_stmt, bootstrap_attempted, error_message,
                   attempt_time, duration, sleep_time, log, summary, now,
                   next_conn, closed, ensured, truncated, calls, iterations,
                   attempts, signalled_at,
                   create_table_only, main_conn, exit_status,
                   close_raised, log_file, log_buffer, log_open, runs,
                   truncate_raised, repos, harness>>

\* Mutant: the handle is closed but not dropped.
Except_keep_handle ==
    /\ pc = "except"
    /\ error_message' = exc
    /\ exc' = NoneText
    /\ stats' = [stats EXCEPT !.failure_count = @ + 1]
    /\ IF conn # None
       THEN closed' = closed \cup {conn}
       ELSE UNCHANGED closed
    /\ pc' = "count"
    /\ UNCHANGED <<stop_flag, max_attempts, interval, downtime_tracker, conn,
                   insert_stmt, bootstrap_attempted, success, attempt_time,
                   duration, sleep_time, log, summary, now, next_conn, ensured,
                   truncated, calls, iterations, attempts, signalled_at,
                   create_table_only, main_conn, exit_status,
                   close_raised, log_file, log_buffer, log_open, runs,
                   truncate_raised, repos, harness>>

\* Mutant: a failed connect skips the bookkeeping and goes straight to the
\* sleep, as a `continue` would.
Except_connect_skipped ==
    /\ pc = "except"
    /\ IF exc \in ConnectErrors
       THEN /\ pc' = "sleep"
            /\ exc' = NoneText
            /\ UNCHANGED <<error_message, stats, closed, conn, insert_stmt>>
       ELSE /\ error_message' = exc
            /\ exc' = NoneText
            /\ stats' = [stats EXCEPT !.failure_count = @ + 1]
            /\ IF conn # None
               THEN /\ closed' = closed \cup {conn}
                    /\ conn' = None
                    /\ insert_stmt' = FALSE
               ELSE UNCHANGED <<closed, conn, insert_stmt>>
            /\ pc' = "count"
    /\ UNCHANGED <<stop_flag, max_attempts, interval, downtime_tracker,
                   bootstrap_attempted, success, attempt_time, duration,
                   sleep_time, log, summary, now, next_conn, ensured, truncated,
                   calls, iterations, attempts, signalled_at,
                   create_table_only, main_conn, exit_status,
                   close_raised, log_file, log_buffer, log_open, runs,
                   truncate_raised, repos, harness>>

\* Mutant: the except clause names only connection and statement errors, so a
\* failing ensure_table leaves the loop.
Except_narrow ==
    /\ pc = "except"
    /\ IF exc \in BootstrapErrors
       THEN /\ pc' = "finally"
            /\ UNCHANGED <<error_message, exc, stats, closed, conn, insert_stmt>>
       ELSE /\ error_message' = exc
            /\ exc' = NoneText
            /\ stats' = [stats EXCEPT !.failure_count = @ + 1]
            /\ IF conn # None
               THEN /\ closed' = closed \cup {conn}
                    /\ conn' = None
                    /\ insert_stmt' = FALSE
               ELSE UNCHANGED <<closed, conn, insert_stmt>>
            /\ pc' = "count"
    /\ UNCHANGED <<stop_flag, max_attempts, interval, downtime_tracker,
                   bootstrap_attempted, success, attempt_time, duration,
                   sleep_time, log, summary, now, next_conn, ensured, truncated,
                   calls, iterations, attempts, signalled_at,
                   create_table_only, main_conn, exit_status,
                   close_raised, log_file, log_buffer, log_open, runs,
                   truncate_raised, repos, harness>>

\* Mutant: a failing inner close overwrites the attempt's error text.
Except_close_error_replaces ==
    /\ pc = "except"
    /\ exc' = NoneText
    /\ stats' = [stats EXCEPT !.failure_count = @ + 1]
    /\ IF conn # None
       THEN /\ \E close_raises \in BOOLEAN :
                    /\ closed' = closed \cup {conn}
                    /\ close_raised' = close_raises
                    /\ error_message' = IF close_raises
                                        THEN "connection close failed"
                                        ELSE exc
            /\ conn' = None
            /\ insert_stmt' = FALSE
       ELSE /\ error_message' = exc
            /\ UNCHANGED <<closed, conn, insert_stmt, close_raised>>
    /\ pc' = "count"
    /\ UNCHANGED <<stop_flag, max_attempts, interval, downtime_tracker,
                   bootstrap_attempted, success, attempt_time, duration,
                   sleep_time, log, summary, now, next_conn, ensured, truncated,
                   calls, iterations,
                   attempts, signalled_at,
                   create_table_only, main_conn, exit_status,
                   log_file, log_buffer, log_open, runs,
                   truncate_raised, repos, harness>>

\* Mutant: the failure is fed to the tracker from inside the handler.
Except_records_failure ==
    /\ pc = "except"
    /\ error_message' = exc
    /\ exc' = NoneText
    /\ stats' = [stats EXCEPT !.failure_count = @ + 1]
    /\ IF conn # None
       THEN /\ \E close_raises \in BOOLEAN :
                    /\ closed' = closed \cup {conn}
                    /\ close_raised' = close_raises
            /\ conn' = None
            /\ insert_stmt' = FALSE
       ELSE UNCHANGED <<closed, conn, insert_stmt, close_raised>>
    /\ downtime_tracker' = record(downtime_tracker, attempt_time, FALSE)
    /\ calls' = Append(calls, RecordCall(attempt_time, FALSE))
    /\ pc' = "count"
    /\ UNCHANGED <<stop_flag, max_attempts, interval,
                   bootstrap_attempted, success, attempt_time, duration,
                   sleep_time, log, summary, now, next_conn, ensured, truncated,
                   iterations,
                   attempts, signalled_at,
                   create_table_only, main_conn, exit_status,
                   log_file, log_buffer, log_open, runs,
                   truncate_raised, repos, harness>>

\* lines 277-286: except Exception as exc: count the failure, drop the handle.
\* conn.close() may itself raise; that exception is passed over (lines 283-284).
Except ==
    /\ pc = "except"
    /\ error_message' = exc
    /\ exc' = NoneText
    /\ stats' = [stats EXCEPT !.failure_count = @ + 1]
    /\ IF conn # None
       THEN /\ \E close_raises \in BOOLEAN :
                    /\ closed' = closed \cup {conn}
                    /\ close_raised' = close_raises
            /\ conn' = None
            /\ insert_stmt' = FALSE
       ELSE UNCHANGED <<closed, conn, insert_stmt, close_raised>>
    /\ pc' = "count"
    /\ UNCHANGED <<stop_flag, max_attempts, interval, downtime_tracker,
                   bootstrap_attempted, success, attempt_time, duration,
                   sleep_time, log, summary, now, next_conn, ensured, truncated,
                   calls, iterations,
                   attempts, signalled_at,
                   create_table_only, main_conn, exit_status,
                   log_file, log_buffer, log_open, runs,
                   truncate_raised, repos, harness>>

\* Mutant: total_attempts grows only for a successful attempt.
Count_only_on_success ==
    /\ pc = "count"
    /\ stats' = [stats EXCEPT !.total_attempts = IF success THEN @ + 1 ELSE @]
    /\ pc' = "record"
    /\ UNCHANGED <<stop_flag, max_attempts, interval, downtime_tracker, conn,
                   insert_stmt, bootstrap_attempted, success, error_message, exc,
                   attempt_time, duration, sleep_time, log, summary, now,
                   next_conn, closed, ensured, truncated, calls, iterations,
                   attempts, signalled_at,
                   create_table_only, main_conn, exit_status,
                   close_raised, log_file, log_buffer, log_open, runs,
                   truncate_raised, repos, harness>>

\* line 288: stats.total_attempts += 1
Count ==
    /\ pc = "count"
    /\ stats' = [stats EXCEPT !.total_attempts = @ + 1]
    /\ pc' = "record"
    /\ UNCHANGED <<stop_flag, max_attempts, interval, downtime_tracker, conn,
                   insert_stmt, bootstrap_attempted, success, error_message, exc,
                   attempt_time, duration, sleep_time, log, summary, now,
                   next_conn, closed, ensured, truncated, calls, iterations,
                   attempts, signalled_at,
                   create_table_only, main_conn, exit_status,
                   close_raised, log_file, log_buffer, log_open, runs,
                   truncate_raised, repos, harness>>

\* line 289: downtime_tracker.record(attempt_time, success)
Record ==
    /\ pc = "record"
    /\ downtime_tracker' = record(downtime_tracker, attempt_time, success)
    /\ calls' = Append(calls, RecordCall(attempt_time, success))
    /\ pc' = "log"
    /\ UNCHANGED <<stop_flag, max_attempts, interval, stats, conn, insert_stmt,
                   bootstrap_attempted, success, error_message, exc,
                   attempt_time, duration, sleep_time, log, summary, now,
                   next_conn, closed, ensured, truncated, iterations,
                   attempts, signalled_at,
                   create_table_only, main_conn, exit_status,
                   close_raised, log_file, log_buffer, log_open, runs,
                   truncate_raised, repos, harness>>

\* log_result: one row, then flush.  The row's fourth column is a formatting
\* of duration_seconds that nothing reads back; the history keeps the other three.
log_result(event_time, ok, error, duration_seconds) ==
    [timestamp |-> event_time,
     status |-> IF ok THEN "success" ELSE "failure",
     error |-> IF error = NoneText THEN "" ELSE error]

\* lines 228-236, the file side of log_result: writer.writerow hands the row to
\* the file object's buffer and log_file.flush() moves the buffer to the disk.
\* A line of the file is kept as its status column.
\* Mutant: the row stays in the buffer until the file is closed.
writerow_flush_buffered(file, buffer, line) ==
    [file |-> file, buffer |-> Append(buffer, line)]

writerow_flush(file, buffer, line) ==
    [file |-> file \o Append(buffer, line), buffer |-> << >>]

\* Mutant: successful attempts are not logged.
Log_only_failures ==
    /\ pc = "log"
    /\ \E d \in 0..MaxDuration :
        /\ duration' = d
        /\ IF success
           THEN UNCHANGED <<log, log_file, log_buffer>>
           ELSE /\ log' = Append(log, log_result(attempt_time, success, error_message, d))
                /\ LET row == log_result(attempt_time, success, error_message, d)
                       out == writerow_flush(log_file, log_buffer, row.status)
                   IN  /\ log_file' = out.file
                       /\ log_buffer' = out.buffer
    /\ pc' = "sleep"
    /\ UNCHANGED <<stop_flag, max_attempts, interval, stats, downtime_tracker,
                   conn, insert_stmt, bootstrap_attempted, success,
                   error_message, exc, attempt_time, sleep_time, summary, now,
                   next_conn, closed, ensured, truncated, calls, iterations,
                   attempts, signalled_at,
                   create_table_only, main_conn, exit_status,
                   close_raised, log_open, runs,
                   truncate_raised, repos, harness>>

\* lines 291-292: duration = time.monotonic() - iteration_start; log_result(...)
Log ==
    /\ pc = "log"
    /\ \E d \in 0..MaxDuration :
        /\ duration' = d
        /\ log' = Append(log, log_result(attempt_time, success, error_message, d))
        /\ LET row == log_result(attempt_time, success, error_message, d)
               out == writerow_flush(log_file, log_buffer, row.status)
           IN  /\ log_file' = out.file
               /\ log_buffer' = out.buffer
    /\ pc' = "sleep"
    /\ UNCHANGED <<stop_flag, max_attempts, interval, stats, downtime_tracker,
                   conn, insert_stmt, bootstrap_attempted, success,
                   error_message, exc, attempt_time, sleep_time, summary, now,
                   next_conn, closed, ensured, truncated, calls, iterations,
                   attempts, signalled_at,
                   create_table_only, main_conn, exit_status,
                   close_raised, log_open, runs,
                   truncate_raised, repos, harness>>

\* Mutant: time.sleep is called with interval - duration whatever its sign.
Sleep_unclamped ==
    /\ pc = "sleep"
    /\ sleep_time' = interval - duration
    /\ close_raised' = FALSE
    /\ pc' = "while"
    /\ UNCHANGED <<stop_flag, max_attempts, interval, stats, downtime_tracker,
                   conn, insert_stmt, bootstrap_attempted, success,
                   error_message, exc, attempt_time, duration, log, summary, now,
                   next_conn, closed, ensured, truncated, calls, iterations,
                   attempts, signalled_at,
                   create_table_only, main_conn, exit_status,
                   log_file, log_buffer, log_open, runs,
                   truncate_raised, repos, harness>>

\* lines 297-299: sleep_time = args.interval - duration; sleep when positive
Sleep ==
    /\ pc = "sleep"
    /\ sleep_time' = IF interval - duration > 0 THEN interval - duration ELSE None
    /\ close_raised' = FALSE
    /\ pc' = "while"
    /\ UNCHANGED <<stop_flag, max_attempts, interval, stats, downtime_tracker,
                   conn, insert_stmt, bootstrap_attempted, success,
                   error_message, exc, attempt_time, duration, log, summary, now,
                   next_conn, closed, ensured, truncated, calls, iterations,
                   attempts, signalled_at,
                   create_table_only, main_conn, exit_status,
                   log_file, log_buffer, log_open, runs,
                   truncate_raised, repos, harness>>

\* Mutant: finalize is called only when the loop ended with the handle absent.
Finally_only_when_down ==
    /\ pc = "finally"
    /\ \E end_time \in Readings :
        /\ now' = end_time
        /\ IF conn = None
           THEN /\ downtime_tracker' = finalize(downtime_tracker, LocalTime(end_time))
                /\ calls' = Append(calls, FinalizeCall(LocalTime(end_time)))
           ELSE UNCHANGED <<downtime_tracker, calls>>
    /\ pc' = "truncate"
    /\ UNCHANGED <<stop_flag, max_attempts, interval, stats, conn, insert_stmt,
                   bootstrap_attempted, success, error_message, exc,
                   attempt_time, duration, sleep_time, log, summary, next_conn,
                   closed, ensured, truncated, iterations, attempts,
                   signalled_at,
                   create_table_only, main_conn, exit_status,
                   close_raised, log_file, log_buffer, log_open, runs,
                   truncate_raised, repos, harness>>

\* lines 302-303: end_time = datetime.now(LOCAL_TZ); downtime_tracker.finalize
Finally ==
    /\ pc = "finally"
    /\ \E end_time \in Readings :
        /\ now' = end_time
        /\ downtime_tracker' = finalize(downtime_tracker, LocalTime(end_time))
        /\ calls' = Append(calls, FinalizeCall(LocalTime(end_time)))
    /\ pc' = "truncate"
    /\ UNCHANGED <<stop_flag, max_attempts, interval, stats, conn, insert_stmt,
                   bootstrap_attempted, success, error_message, exc,
                   attempt_time, duration, sleep_time, log, summary, next_conn,
                   closed, ensured, truncated, iterations,
                   attempts, signalled_at,
                   create_table_only, main_conn, exit_status,
                   close_raised, log_file, log_buffer, log_open, runs,
                   truncate_raised, repos, harness>>

\* Mutant: a failing truncate_table leaves the finally block at once.
Truncate_unguarded ==
    /\ pc = "truncate"
    /\ IF conn # None
       THEN \E truncate_raises \in BOOLEAN :
                /\ truncated' = truncated \cup {conn}
                /\ truncate_raised' = truncate_raises
                /\ pc' = IF truncate_raises THEN "raised" ELSE "logclose"
       ELSE /\ pc' = "logclose"
            /\ UNCHANGED <<truncated, truncate_raised>>
    /\ UNCHANGED <<stop_flag, max_attempts, interval, stats, downtime_tracker,
                   conn, insert_stmt, bootstrap_attempted, success,
                   error_message, exc, attempt_time, duration, sleep_time, log,
                   summary, now, next_conn, closed, ensured, calls, iterations,
                   attempts, signalled_at,
                   create_table_only, main_conn, exit_status,
                   close_raised, log_file, log_buffer, log_open, runs, repos, harness>>

\* lines 304-308: truncate_table on a live handle; its exception is passed over
Truncate ==
    /\ pc = "truncate"
    /\ IF conn # None
       THEN \E truncate_raises \in BOOLEAN :
                /\ truncated' = truncated \cup {conn}
                /\ truncate_raised' = truncate_raises
       ELSE UNCHANGED <<truncated, truncate_raised>>
    /\ pc' = "logclose"
    /\ UNCHANGED <<stop_flag, max_attempts, interval, stats, downtime_tracker,
                   conn, insert_stmt, bootstrap_attempted, success,
                   error_message, exc, attempt_time, duration, sleep_time, log,
                   summary, now, next_conn, closed, ensured, calls, iterations,
                   attempts, signalled_at,
                   create_table_only, main_conn, exit_status,
                   close_raised, log_file, log_buffer, log_open, runs, repos, harness>>

\* line 309: log_file.close(); an exception leaves the finally block
LogClose ==
    /\ pc = "logclose"
    /\ log_file' = log_file \o log_buffer
    /\ log_buffer' = << >>
    /\ log_open' = FALSE
    /\ \/ /\ pc' = "connclose"
          /\ UNCHANGED exc
       \/ /\ exc' = "log close failed"
          /\ pc' = "raised"
    /\ UNCHANGED <<stop_flag, max_attempts, interval, stats, downtime_tracker,
                   conn, insert_stmt, bootstrap_attempted, success,
                   error_message, attempt_time, duration, sleep_time, log,
                   summary, now, next_conn, closed, ensured, truncated, calls,
                   iterations,
                   attempts, signalled_at,
                   create_table_only, main_conn, exit_status,
                   close_raised, runs,
                   truncate_raised, repos, harness>>

\* lines 310-311: if conn is not None: conn.close(); an exception propagates
ConnClose ==
    /\ pc = "connclose"
    /\ IF conn # None
       THEN /\ closed' = closed \cup {conn}
            /\ \/ /\ pc' = "summarize"
                  /\ UNCHANGED exc
               \/ /\ exc' = "connection close failed"
                  /\ pc' = "raised"
       ELSE /\ pc' = "summarize"
            /\ UNCHANGED <<closed, exc>>
    /\ UNCHANGED <<stop_flag, max_attempts, interval, stats, downtime_tracker,
                   conn, insert_stmt, bootstrap_attempted, success,
                   error_message, attempt_time, duration, sleep_time, log,
                   summary, now, next_conn, ensured, truncated, calls,
                   iterations,
                   attempts, signalled_at,
                   create_table_only, main_conn, exit_status,
                   close_raised, log_file, log_buffer, log_open, runs,
                   truncate_raised, repos, harness>>

\* summarize(stats, tracker): the printed report
summarize(st, tr) ==
    [total_attempts |-> st.total_attempts,
     succeeded |-> st.success_count,
     failed |-> st.failure_count,
     intervals |-> tr.intervals,
     no_downtime |-> tr.intervals = << >>]

\* line 313: summarize(stats, downtime_tracker)
Summarize ==
    /\ pc = "summarize"
    /\ summary' = <<summarize(stats, downtime_tracker)>>
    /\ pc' = "done"
    /\ UNCHANGED <<stop_flag, max_attempts, interval, stats, downtime_tracker,
                   conn, insert_stmt, bootstrap_attempted, success,
                   error_message, exc, attempt_time, duration, sleep_time, log,
                   now, next_conn, closed, ensured, truncated, calls,
                   iterations,
                   attempts, signalled_at,
                   create_table_only, main_conn, exit_status,
                   close_raised, log_file, log_buffer, log_open, runs,
                   truncate_raised, repos, harness>>

Next ==
    \/ MainConnect
    \/ MainSetup
    \/ MainClose
    \/ MainBranch
    \/ ProbeLoopEntry
    \/ MainReturn
    \/ Signal
    \/ WhileCheck
    \/ Tick
    \/ Ceiling
    \/ Connect
    \/ Bootstrap
    \/ Insert
    \/ Except
    \/ Count
    \/ Record
    \/ Log
    \/ Sleep
    \/ Finally
    \/ Truncate
    \/ LogClose
    \/ ConnClose
    \/ Summarize

Spec == Init /\ [][Next]_vars

\* ------------------------------------------------------ history operators

\* A recorded failure.
IsFailure(c) == c.op = "record" /\ ~c.success

\* Indices at which a maximal contiguous run of failures begins.
RunStarts(h) ==
    {i \in 1..Len(h) : IsFailure(h[i]) /\ (i = 1 \/ ~IsFailure(h[i - 1]))}

\* Indices of the calls (a success, or finalize) that directly follow a failure.
RunCloses(h) ==
    {j \in 2..Len(h) : ~IsFailure(h[j]) /\ IsFailure(h[j - 1])}

\* Runs of failures that a recorded success follows.
RunsFollowedBySuccess(h) ==
    {i \in RunStarts(h) :
        \E j \in (i + 1)..Len(h) : h[j].op = "record" /\ h[j].success}

RecordsOnly(h) == \A i \in 1..Len(h) : h[i].op = "record"

Front(h) == SubSeq(h, 1, Len(h) - 1)

\* Records only, then one finalize.
RecordsThenFinalize(h) ==
    /\ Len(h) >= 1
    /\ h[Len(h)].op = "finalize"
    /\ RecordsOnly(Front(h))

\* The k-th smallest element of a finite set of integers.
Kth(S, k) == CHOOSE x \in S : Cardinality({y \in S : y < x}) = k - 1

\* The start of the run that call j closes: the latest run start before j.
StartOf(h, j) ==
    CHOOSE i \in RunStarts(h) : i < j /\ \A i2 \in RunStarts(h) : i2 < j => i2 <= i

\* The intervals the history calls for: one per closed run, in order,
\* from the run's first failure to the call that closed it.
ExpectedIntervals(h) ==
    [k \in 1..Cardinality(RunCloses(h)) |->
        LET j == Kth(RunCloses(h), k)
        IN  <<h[StartOf(h, j)].time, h[j].time>>]

NonDecreasing(h) == \A i \in 1..(Len(h) - 1) : h[i].time <= h[i + 1].time

PostLoop == {"finally", "truncate", "logclose", "connclose", "summarize", "done",
             "raised", "exit"}
Finalized == PostLoop \ {"finally"}

CeilingReached == Truthy(max_attempts) /\ stats.total_attempts >= max_attempts

NumRecords(h) == Cardinality({i \in 1..Len(h) : h[i].op = "record"})
NumFinalizes(h) == Cardinality({i \in 1..Len(h) : h[i].op = "finalize"})

\* ------------------------------------------------------------------ claims

\* C1: after a sequence of record calls and one finalize, the number of
\* intervals equals the number of maximal contiguous runs of failures; before
\* finalize it equals the number of runs a success has already followed.
C1_IntervalCount ==
    /\ RecordsOnly(calls) =>
          Len(downtime_tracker.intervals) = Cardinality(RunsFollowedBySuccess(calls))
    /\ RecordsThenFinalize(calls) =>
          Len(downtime_tracker.intervals) = Cardinality(RunStarts(Front(calls)))

\* Two runs, the second still open when finalize closed it.
C1_Witness ==
    /\ Len(calls) = 4
    /\ RecordsThenFinalize(calls)
    /\ IsFailure(calls[1]) /\ ~IsFailure(calls[2]) /\ IsFailure(calls[3])
    /\ Len(downtime_tracker.intervals) = 2

\* C2: every interval starts at the first failure of its run and ends at the
\* first success after the run, or at the finalize timestamp for an open run.
C2_IntervalBounds ==
    downtime_tracker.intervals = ExpectedIntervals(calls)

\* Scenario A: [T0:success, T1:fail, T2:fail, T3:success] gives (T1, T3) only.
C2_Witness ==
    /\ calls = <<RecordCall(0, TRUE), RecordCall(1, FALSE),
                 RecordCall(2, FALSE), RecordCall(3, TRUE)>>
    /\ downtime_tracker.intervals = << <<1, 3>> >>

\* C8: with non-decreasing timestamps, consecutive intervals (s1,e1), (s2,e2)
\* satisfy e1 <= s2.
C8_OrderedIntervals ==
    NonDecreasing(calls) =>
        \A k \in 1..(Len(downtime_tracker.intervals) - 1) :
            downtime_tracker.intervals[k][2] <= downtime_tracker.intervals[k + 1][1]

\* Two intervals from a non-decreasing history, the second opening strictly
\* after the first closed.
C8_Witness ==
    /\ NonDecreasing(calls)
    /\ Len(downtime_tracker.intervals) = 2
    /\ downtime_tracker.intervals[1][2] < downtime_tracker.intervals[2][1]

\* C10: record(t, success=false) leaves the interval list unchanged, and
\* leaves started_at unchanged when the tracker is already Down.
C10_FailureFrame ==
    [][(Len(calls') = Len(calls) + 1 /\ IsFailure(calls'[Len(calls')]))
         => /\ downtime_tracker'.intervals = downtime_tracker.intervals
            /\ downtime_tracker.current_start # None
                 => downtime_tracker'.current_start = downtime_tracker.current_start
      ]_vars

\* A second failure, at a later time, recorded while Down: the start stays.
C10_Witness ==
    /\ Len(calls) = 3
    /\ ~IsFailure(calls[1]) /\ IsFailure(calls[2]) /\ IsFailure(calls[3])
    /\ calls[2].time < calls[3].time
    /\ downtime_tracker.current_start = calls[2].time
    /\ downtime_tracker.intervals = << >>

\* C3: success_count + failure_count = total_attempts at the start of every
\* loop iteration and once the loop has stopped.
C3_CountersAgree ==
    pc \in ({"while", "tick", "ceiling"} \cup PostLoop) =>
        stats.success_count + stats.failure_count = stats.total_attempts

\* An iteration boundary after both a successful and a failed attempt.
C3_Witness ==
    /\ pc = "while"
    /\ stats.success_count >= 1
    /\ stats.failure_count >= 1

\* C4: a failing connect, ensure_table or insert never ends the run: it becomes
\* a failed attempt carrying the error text, which is logged, and the loop is
\* left only with the stop flag set or the ceiling reached.
C4_FailureNeverEndsRun ==
    [][ /\ (pc \in {"connect", "bootstrap", "insert"} /\ pc' # pc) =>
              pc' \in {"bootstrap", "insert", "count", "except"}
        /\ (pc = "except" /\ pc' # pc) =>
              /\ pc' = "count"
              /\ exc # NoneText
              /\ ~success'
              /\ error_message' = exc
              /\ stats'.failure_count = stats.failure_count + 1
        /\ (pc = "log" /\ pc' # pc /\ ~success) =>
              /\ pc' = "sleep"
              /\ log' = Append(log, [timestamp |-> attempt_time,
                                     status |-> "failure",
                                     error |-> error_message])
        /\ (pc \notin PostLoop /\ pc' \in PostLoop) =>
              /\ pc \in {"while", "ceiling"}
              /\ pc' = "finally"
              /\ stop_flag \/ CeilingReached
      ]_vars

\* Two failed attempts of different kinds are logged and a third attempt is
\* under way, with no signal received.
C4_Witness ==
    /\ pc = "connect"
    /\ ~stop_flag
    /\ Len(log) = 2
    /\ log[1].status = "failure" /\ log[1].error = "create table failed"
    /\ log[2].status = "failure" /\ log[2].error = "insert failed"
    /\ stats.failure_count = 2

\* C5: once probe_loop has started, the final report is produced on every path
\* on which it ends, also when final cleanup fails.
C5_ReportAlwaysProduced ==
    pc \in {"done", "raised"} => summary # << >>

\* C6: once a signal has been delivered no new iteration is entered, and the
\* iteration in flight completes its counter update, record call and log row.
C6_SignalDrains ==
    [][ /\ stop_flag => iterations' = iterations
        /\ pc' \in PostLoop =>
              /\ stats'.total_attempts = attempts'
              /\ NumRecords(calls') = attempts'
              /\ Len(log') = attempts'
      ]_vars

\* A signal that arrived during the only attempt: the attempt was counted,
\* recorded and logged, and the run ended with one iteration.
C6_Witness ==
    /\ pc = "done"
    /\ max_attempts = None
    /\ signalled_at = "during attempt"
    /\ iterations = 1
    /\ stats.total_attempts = 1
    /\ NumRecords(calls) = 1
    /\ Len(log) = 1

\* C7: finalize is called exactly once, after the last record call; record is
\* called once per attempt and never after finalize.
C7_FinalizeOnce ==
    /\ NumFinalizes(calls) = IF pc \in Finalized THEN 1 ELSE 0
    /\ pc \in Finalized => calls[Len(calls)].op = "finalize"
    /\ NumRecords(calls) =
          IF pc \in {"connect", "bootstrap", "insert", "except", "count", "record"}
          THEN attempts - 1
          ELSE attempts

\* A finished run of two attempts: two record calls, then the one finalize.
C7_Witness ==
    /\ pc = "done"
    /\ attempts = 2
    /\ Len(calls) = 3
    /\ calls[1].op = "record" /\ calls[2].op = "record" /\ calls[3].op = "finalize"

\* C9: every interval in the tracker's list has end >= start, in every state
\* of a run.
C9_EndNotBeforeStart ==
    \A k \in 1..Len(downtime_tracker.intervals) :
        downtime_tracker.intervals[k][2] >= downtime_tracker.intervals[k][1]

\* C11: finalize is idempotent: a finalize call leaves the tracker Up, and a
\* finalize call on a tracker that is Up (in particular one that follows a
\* finalize) changes neither the interval list nor the state.
C11_FinalizeIdempotent ==
    [][(Len(calls') = Len(calls) + 1 /\ calls'[Len(calls')].op = "finalize")
         => /\ downtime_tracker'.current_start = None
            /\ downtime_tracker.current_start = None
                 => downtime_tracker' = downtime_tracker
            /\ (Len(calls) >= 1 /\ calls[Len(calls)].op = "finalize")
                 => downtime_tracker' = downtime_tracker
      ]_vars

\* An open run closed by a first finalize, then a second finalize at a later
\* time: still the one interval, ending at the first finalize.
C11_Witness ==
    /\ Len(calls) = 3
    /\ IsFailure(calls[1])
    /\ calls[2].op = "finalize" /\ calls[3].op = "finalize"
    /\ calls[2].time < calls[3].time
    /\ downtime_tracker.intervals = << <<calls[1].time, calls[2].time>> >>
    /\ downtime_tracker.current_start = None

\* C12: record calls that are all failures (at least one), then finalize(T),
\* leave exactly one interval, from the first recorded timestamp to T.
C12_AllFailures ==
    (/\ Len(calls) >= 2
     /\ RecordsThenFinalize(calls)
     /\ \A i \in 1..(Len(calls) - 1) : IsFailure(calls[i]))
    => downtime_tracker.intervals = << <<calls[1].time, calls[Len(calls)].time>> >>

\* Three failures at different times, then finalize.
C12_Witness ==
    /\ Len(calls) = 4
    /\ RecordsThenFinalize(calls)
    /\ \A i \in 1..3 : IsFailure(calls[i])
    /\ calls[1].time < calls[2].time /\ calls[2].time < calls[3].time
    /\ Len(downtime_tracker.intervals) = 1

\* C13: while no failure has been recorded the interval list is empty, before
\* and after finalize, the empty sequence of calls included.
C13_NoFailureNoInterval ==
    (\A i \in 1..Len(calls) : ~IsFailure(calls[i]))
    => downtime_tracker.intervals = << >>

\* Two successes, then finalize.
C13_Witness ==
    /\ Len(calls) = 3
    /\ calls[1].op = "record" /\ calls[1].success
    /\ calls[2].op = "record" /\ calls[2].success
    /\ calls[3].op = "finalize"
    /\ downtime_tracker.intervals = << >>

\* Positions inside the while loop of probe_loop.
LoopPcs == {"while", "tick", "ceiling", "connect", "bootstrap", "insert",
            "except", "count", "record", "log", "sleep"}

\* The elements of a sequence.
Range(q) == {q[i] : i \in 1..Len(q)}

LastRowFailed == Len(log) >= 1 /\ log[Len(log)].status = "failure"

C15_HandleAbsentAfterFailure ==
    /\ (pc \in {"while", "tick", "ceiling", "connect"} /\ LastRowFailed) => conn = None
    /\ (pc \in {"bootstrap", "insert"}) => (conn # None /\ conn \notin closed)

\* An attempt on an established connection failed at the insert; the next
\* iteration is about to connect, with no handle.
C15_Witness ==
    /\ pc = "connect"
    /\ Len(log) = 2
    /\ log[1].status = "success"
    /\ log[2].status = "failure" /\ log[2].error = "insert failed"
    /\ conn = None

\* C17: ensure_table is issued at most once on any one connection handle.
C17_EnsureOncePerHandle ==
    \A i, j \in 1..Len(ensured) : i # j => ensured[i] # ensured[j]

\* A second iteration on the connection the first one bootstrapped has passed
\* the bootstrap step without a second ensure_table.
C17_Witness ==
    /\ pc = "insert"
    /\ iterations = 2
    /\ stats.success_count = 1
    /\ stats.failure_count = 0
    /\ conn # None
    /\ Cardinality({i \in 1..Len(ensured) : ensured[i] = conn}) = 1

\* C18: a failing ensure_table inside the loop is handled like a failed
\* write: failure_count and total_attempts grow by one, the tracker is fed a
\* failure, a failure row is logged, the handle is dropped, the loop goes on,
\* and ensure_table is issued again on the next connection established.
C18_BootstrapFailureIsAttemptFailure ==
    [][ /\ (pc = "except" /\ pc' # pc /\ exc \in BootstrapErrors) =>
              /\ pc' = "count"
              /\ error_message' = exc
              /\ stats'.failure_count = stats.failure_count + 1
              /\ stats'.total_attempts = stats.total_attempts
              /\ conn # None /\ conn \in closed' /\ conn' = None
              /\ ~bootstrap_attempted'
        /\ (pc = "count" /\ pc' # pc /\ error_message \in BootstrapErrors) =>
              /\ pc' = "record"
              /\ stats'.total_attempts = stats.total_attempts + 1
              /\ stats'.failure_count = stats.failure_count
        /\ (pc = "record" /\ pc' # pc /\ error_message \in BootstrapErrors) =>
              /\ pc' = "log"
              /\ calls' = Append(calls, RecordCall(attempt_time, FALSE))
        /\ (pc = "log" /\ pc' # pc /\ error_message \in BootstrapErrors) =>
              /\ pc' = "sleep"
              /\ log' = Append(log, [timestamp |-> attempt_time,
                                     status |-> "failure",
                                     error |-> error_message])
        /\ (pc = "sleep" /\ pc' # pc) => pc' = "while"
        /\ (~bootstrap_attempted /\ bootstrap_attempted') =>
              (pc = "bootstrap" /\ ensured' = Append(ensured, conn))
        /\ (pc = "bootstrap" /\ pc' # pc /\ ~bootstrap_attempted) =>
              ensured' = Append(ensured, conn)
      ]_vars

\* ensure_table failed on the first connection of the loop; the next iteration
\* opened another connection and issued ensure_table on it.
C18_Witness ==
    /\ pc = "insert"
    /\ Len(log) = 1
    /\ log[1].status = "failure" /\ log[1].error = "create table failed"
    /\ stats.failure_count = 1 /\ stats.total_attempts = 1
    /\ calls = <<RecordCall(log[1].timestamp, FALSE)>>
    /\ Len(ensured) = 3
    /\ ensured[2] \in closed
    /\ ensured[3] = conn /\ ensured[3] # ensured[2]

\* C19: a failing open_connection inside the loop is one failed attempt
\* (failure_count + 1, one failure fed to the tracker, one failure row), leaves
\* the handle absent, and every later iteration calls open_connection again
\* until it succeeds or the run ends.
C19_ConnectFailureIsAttemptFailure ==
    [][ /\ (pc = "except" /\ pc' # pc /\ exc \in ConnectErrors) =>
              /\ pc' = "count"
              /\ error_message' = exc
              /\ stats'.failure_count = stats.failure_count + 1
              /\ conn = None /\ conn' = None
        /\ (pc = "count" /\ pc' # pc /\ error_message \in ConnectErrors) =>
              /\ pc' = "record"
              /\ stats'.total_attempts = stats.total_attempts + 1
              /\ stats'.failure_count = stats.failure_count
        /\ (pc = "record" /\ pc' # pc /\ error_message \in ConnectErrors) =>
              /\ pc' = "log"
              /\ calls' = Append(calls, RecordCall(attempt_time, FALSE))
        /\ (pc = "log" /\ pc' # pc /\ error_message \in ConnectErrors) =>
              /\ pc' = "sleep"
              /\ conn = None
              /\ log' = Append(log, [timestamp |-> attempt_time,
                                     status |-> "failure",
                                     error |-> error_message])
        /\ (pc = "sleep" /\ pc' # pc) => pc' = "while"
        /\ (pc = "connect" /\ pc' # pc /\ conn = None) =>
              \/ conn' = next_conn /\ next_conn' = next_conn + 1 /\ pc' = "bootstrap"
              \/ conn' = None /\ exc' \in ConnectErrors /\ pc' = "except"
      ]_vars

\* Two iterations in a row failed to connect; the third opened a connection.
C19_Witness ==
    /\ pc = "bootstrap"
    /\ Len(log) = 2
    /\ log[1].status = "failure" /\ log[1].error = "connection refused"
    /\ log[2].status = "failure" /\ log[2].error = "connection refused"
    /\ stats.failure_count = 2 /\ stats.total_attempts = 2
    /\ NumRecords(calls) = 2
    /\ conn # None

\* C16: the bootstrap flag is reset whenever the connection is invalidated, so
\* that ensure_table is issued on the first attempt of every newly established
\* connection, also after an earlier connection was bootstrapped and failed.
C16_BootstrapResetOnInvalidate ==
    /\ (pc \in LoopPcs /\ conn = None) => ~bootstrap_attempted
    /\ pc = "insert" => conn \in Range(ensured)

\* C20: when main cannot open its first connection it returns 2, and only
\* then; probe_loop is not entered, no attempt is counted, no log row is
\* written and no summary is produced.
C20_FirstConnectionFailure ==
    [][ /\ (pc = "main_connect" /\ pc' # pc /\ main_conn' = None) =>
              (pc' = "main_exit" /\ exit_status' = 2)
        /\ exit_status' = 2 =>
              /\ pc' = "main_exit"
              /\ main_conn' = None
              /\ next_conn' = 1
              /\ iterations' = 0 /\ attempts' = 0
              /\ stats'.total_attempts = 0
              /\ calls' = << >>
              /\ log' = << >>
              /\ summary' = << >>
        /\ pc = "main_exit" => pc' = "main_exit"
        /\ (pc' \in {"main_exit", "exit"} /\ main_conn' # None) => exit_status' = 0
      ]_vars

\* main has returned 2: nothing was counted, logged or reported.
C20_Witness ==
    /\ pc = "main_exit"
    /\ exit_status = 2
    /\ main_conn = None
    /\ log = << >>
    /\ summary = << >>

\* --------------------------------------------- the log file over several runs

MaxRuns == 3
MaxLines == 5

\* One log file, appended to by one run after another.  A run is
\* init_log_writer, any number of log_result calls, and the end of the process,
\* with or without log_file.close().
LogInit ==
    /\ pc = "logfile"
    /\ stop_flag = FALSE
    /\ max_attempts = None
    /\ interval = 1
    /\ stats = [total_attempts |-> 0, success_count |-> 0, failure_count |-> 0]
    /\ downtime_tracker = NewTracker
    /\ conn = None
    /\ insert_stmt = FALSE
    /\ bootstrap_attempted = FALSE
    /\ success = FALSE
    /\ error_message = NoneText
    /\ exc = NoneText
    /\ attempt_time = None
    /\ duration = 0
    /\ sleep_time = None
    /\ log = << >>
    /\ summary = << >>
    /\ now = 0
    /\ next_conn = 1
    /\ closed = {}
    /\ ensured = << >>
    /\ truncated = {}
    /\ calls = << >>
    /\ iterations = 0
    /\ attempts = 0
    /\ signalled_at = ""
    /\ create_table_only = FALSE
    /\ main_conn = None
    /\ exit_status = None
    /\ close_raised = FALSE
    /\ log_file = << >>
    /\ log_buffer = << >>
    /\ log_open = FALSE
    /\ runs = 0
    /\ truncate_raised = FALSE
    /\ repos = setup_test_repos
    /\ harness = << >>

nonFileVars == <<pc, stop_flag, max_attempts, interval, stats, downtime_tracker,
                 conn, insert_stmt, bootstrap_attempted, success, error_message,
                 exc, attempt_time, duration, sleep_time, log, summary, now,
                 next_conn, closed, ensured, truncated, calls, iterations,
                 attempts, signalled_at, create_table_only, main_conn,
                 exit_status, close_raised, truncate_raised, repos, harness>>

\* line 243: a new run opens the file.
LInitLogWriter ==
    /\ pc = "logfile"
    /\ ~log_open
    /\ runs < MaxRuns
    /\ log_file' = init_log_writer(log_file)
    /\ log_buffer' = << >>
    /\ log_open' = TRUE
    /\ runs' = runs + 1
    /\ UNCHANGED nonFileVars

\* line 292: the run logs one attempt.
LLogResult ==
    /\ pc = "logfile"
    /\ log_open
    /\ Len(log_file) < MaxLines
    /\ \E ok \in BOOLEAN :
        LET row == log_result(0, ok, NoneText, 0)
            out == writerow_flush(log_file, log_buffer, row.status)
        IN  /\ log_file' = out.file
            /\ log_buffer' = out.buffer
    /\ UNCHANGED <<log_open, runs>>
    /\ UNCHANGED nonFileVars

\* line 309: log_file.close() writes out what is buffered.
LClose ==
    /\ pc = "logfile"
    /\ log_open
    /\ log_file' = log_file \o log_buffer
    /\ log_buffer' = << >>
    /\ log_open' = FALSE
    /\ UNCHANGED runs
    /\ UNCHANGED nonFileVars

\* The process dies without closing the file: what is buffered is lost.
LKilled ==
    /\ pc = "logfile"
    /\ log_open
    /\ log_buffer' = << >>
    /\ log_open' = FALSE
    /\ UNCHANGED <<log_file, runs>>
    /\ UNCHANGED nonFileVars

LogNext ==
    \/ LInitLogWriter
    \/ LLogResult
    \/ LClose
    \/ LKilled

LogSpec == LogInit /\ [][LogNext]_vars

\* ---------------------------------------------------------------- fairness

\* Every step of the program other than the arrival of a signal.
ProgramStep ==
    \/ MainConnect
    \/ MainSetup
    \/ MainClose
    \/ MainBranch
    \/ ProbeLoopEntry
    \/ MainReturn
    \/ WhileCheck
    \/ Tick
    \/ Ceiling
    \/ Connect
    \/ Bootstrap
    \/ Insert
    \/ Except
    \/ Count
    \/ Record
    \/ Log
    \/ Sleep
    \/ Finally
    \/ Truncate
    \/ LogClose
    \/ ConnClose
    \/ Summarize

\* The process keeps running: every call of an attempt and every sleep
\* returns, so a step that can be taken is taken.  Signals may or may not come.
LiveSpec == Init /\ [][Next]_vars /\ WF_vars(ProgramStep)

\* ------------------------------------------------------- claims, continued

\* C21: on leaving the loop the connection is released on every path and no
\* failure of the final cleanup reaches the caller of probe_loop: the end of
\* the run is never an exception raised by closing the connection, and a run
\* that ended with a handle has called close() on it.
C21_TeardownSwallowed ==
    /\ pc = "raised" => exc # "connection close failed"
    /\ (pc \in {"summarize", "done", "raised", "exit"} /\ conn # None) =>
          conn \in closed

\* C22: when the close() inside the failure handling itself raises, the handle
\* is absent all the same, the attempt is counted and logged as a failure with
\* the text of the attempt's own error, and the loop goes on.
C22_InnerCloseIgnored ==
    close_raised =>
        /\ pc \in {"count", "record", "log", "sleep"}
        /\ conn = None
        /\ ~insert_stmt
        /\ ~success
        /\ error_message \in BootstrapErrors \cup InsertErrors
        /\ exc = NoneText
        /\ stats.failure_count >= 1
        /\ pc \in {"record", "log", "sleep"} => stats.total_attempts = attempts
        /\ pc = "sleep" =>
              /\ Len(log) = attempts
              /\ log[Len(log)].status = "failure"
              /\ log[Len(log)].error = error_message

\* The inner close raised after a failed insert; the row carries "insert failed".
C22_Witness ==
    /\ close_raised
    /\ pc = "sleep"
    /\ conn = None
    /\ log[Len(log)].status = "failure"
    /\ log[Len(log)].error = "insert failed"
    /\ stats.total_attempts = Len(log)

Max0(x) == IF x > 0 THEN x ELSE 0

\* What the last iteration slept: nothing when time.sleep was not called.
Slept == IF sleep_time = None THEN 0 ELSE sleep_time

\* C23: the sleep that ends an iteration is max(0, interval - duration) of that
\* iteration alone: never negative, no call at all when the iteration took at
\* least the interval, and nothing carried over from earlier iterations.
C23_SleepIsRemainder ==
    (pc # "sleep" /\ Len(log) >= 1) =>
        /\ Slept = Max0(interval - duration)
        /\ Slept >= 0
        /\ sleep_time = None <=> duration >= interval
        /\ sleep_time # None => sleep_time > 0

\* The second iteration overran the interval and time.sleep was not called.
C23_Witness ==
    /\ pc = "while"
    /\ Len(log) = 2
    /\ duration > interval
    /\ sleep_time = None

RecordCalls(h) == SelectSeq(h, LAMBDA c : c.op = "record")

\* C24: at the start of every iteration and once the loop is left, the rows
\* written in this run are as many as total_attempts, in attempt order: row i
\* has the time and outcome of attempt i, and an empty error on success.
C24_OneRowPerAttempt ==
    (pc \in {"while", "tick", "ceiling"} \cup PostLoop) =>
        /\ Len(log) = stats.total_attempts
        /\ Len(log) = Len(RecordCalls(calls))
        /\ Cardinality({i \in 1..Len(log) : log[i].status = "success"}) =
              stats.success_count
        /\ \A i \in 1..Len(log) :
              /\ log[i].status \in {"success", "failure"}
              /\ log[i].status = "success" <=> RecordCalls(calls)[i].success
              /\ log[i].timestamp = RecordCalls(calls)[i].time
              /\ log[i].status = "success" => log[i].error = ""

\* A success then a failure, each with its row.
C24_Witness ==
    /\ pc = "while"
    /\ Len(log) = 2
    /\ log[1].status = "success" /\ log[1].error = ""
    /\ log[2].status = "failure"
    /\ stats.total_attempts = 2

\* C25: no row is left in the buffer between steps: every row of the run is on
\* the disk as soon as log_result returns, so what a crash can lose is the row
\* of the attempt in flight and no other.
C25_FlushedEveryRecord ==
    /\ log_buffer = << >>
    /\ pc \in LoopPcs \cup PostLoop =>
          /\ Len(log_file) = 1 + Len(log)
          /\ \A i \in 1..Len(log) : log_file[i + 1] = log[i].status
          /\ Len(log_file) - 1 >= attempts - 1

\* Two attempts made, both rows on the disk while the loop is still running.
C25_Witness ==
    /\ pc = "while"
    /\ ~stop_flag
    /\ log_file = <<Header, "failure", "success">>
    /\ Len(log) = 2

\* C26: over any sequence of runs on one file, the header is the first line and
\* appears nowhere else; it is on the disk as soon as the first run has opened
\* the file.
C26_HeaderOnce ==
    /\ runs >= 1 => Len(log_file) >= 1
    /\ Len(log_file) >= 1 => log_file[1] = Header
    /\ \A i \in 2..Len(log_file) : log_file[i] # Header
    /\ runs = 0 => log_file = << >>

\* The third run is appending to a file that earlier runs wrote.
C26_Witness ==
    /\ runs = 3
    /\ log_open
    /\ Len(log_file) = 4
    /\ log_file[1] = Header

\* Everything the handler must leave alone.
handlerFrame == <<pc, max_attempts, interval, stats, downtime_tracker, conn,
                  insert_stmt, bootstrap_attempted, success, error_message, exc,
                  attempt_time, duration, sleep_time, log, summary, now,
                  next_conn, closed, ensured, truncated, calls, iterations,
                  attempts, create_table_only, main_conn, exit_status,
                  log_file, log_buffer, log_open, runs, close_raised,
                  truncate_raised, repos, harness>>

\* C27: a step that sets the stop flag, whichever of SIGINT and SIGTERM caused
\* it, changes nothing else; and once set the flag stays set.
C27_HandlerOnlySetsFlag ==
    [][ /\ stop_flag => stop_flag'
        /\ (~stop_flag /\ stop_flag') => UNCHANGED handlerFrame
      ]_vars

\* A signal arrived during an attempt, the run drained, the flag is still set.
C27_Witness ==
    /\ stop_flag
    /\ signalled_at = "during attempt"
    /\ pc = "done"
    /\ stats.total_attempts >= 1

\* C28: once a signal has arrived while the loop runs, the loop reaches the
\* stopped state with finalize called once and the summary produced, and no
\* further iteration is begun on the way.
C28_SignalDrainsToReport ==
    /\ (stop_flag /\ pc \in LoopPcs) ~>
          (pc \in {"done", "exit"} /\ NumFinalizes(calls) = 1 /\ summary # << >>)
    /\ [][(stop_flag /\ pc \in LoopPcs) => iterations' = iterations]_vars

\* C29: with a ceiling N >= 1 and no signal the loop cannot run on: no more
\* than N attempts and N + 1 iterations are begun, a step is always possible
\* inside the loop, and the loop is left with total_attempts = N.
C29_CeilingTerminates ==
    (Truthy(max_attempts) /\ ~stop_flag) =>
        /\ attempts <= max_attempts
        /\ iterations <= max_attempts + 1
        /\ pc \in LoopPcs => ENABLED ProgramStep
        /\ pc \in PostLoop => stats.total_attempts = max_attempts

\* Ceiling 2, one attempt failed, one succeeded, no signal: the run is over.
C29_Witness ==
    /\ pc = "done"
    /\ ~stop_flag
    /\ max_attempts = 2
    /\ stats.total_attempts = 2
    /\ stats.failure_count = 1

\* Handles that were opened and on which close() has not been called.
Established == (1..(next_conn - 1)) \ closed

\* C30: at most one connection is established at any time: main's connection
\* is closed on every path before anything else happens, the loop starts with
\* no handle, and inside the loop the loop's handle is the only one.
C30_OneConnection ==
    /\ Cardinality(Established) <= 1
    /\ (main_conn # None /\ pc \notin {"main_setup", "main_close"}) =>
          main_conn \in closed
    /\ pc \in LoopPcs =>
          Established = (IF conn = None THEN {} ELSE {conn})
    /\ (pc = "while" /\ iterations = 0) => conn = None

\* The loop holds its second handle; main's and the loop's first are closed.
C30_Witness ==
    /\ pc = "insert"
    /\ conn = 3
    /\ closed = {1, 2}
    /\ main_conn = 1
    /\ Established = {conn}

\* ------------------------------------------------------ claims, concluded

IsPrefix(p, q) == Len(p) <= Len(q) /\ SubSeq(q, 1, Len(p)) = p

\* C31: the interval list is append-only: every record and every finalize
\* call leaves the intervals already emitted where they were, and adds at most
\* one.
C31_AppendOnly ==
    [][ /\ IsPrefix(downtime_tracker.intervals, downtime_tracker'.intervals)
        /\ Len(downtime_tracker'.intervals) <= Len(downtime_tracker.intervals) + 1
      ]_vars

\* A record call closed the first interval and finalize appended the second.
C31_Witness ==
    /\ Len(calls) = 4
    /\ calls[2].op = "record" /\ calls[2].success
    /\ calls[4].op = "finalize"
    /\ Len(downtime_tracker.intervals) = 2
    /\ downtime_tracker.intervals[1] = <<calls[1].time, calls[2].time>>

\* How far the bookkeeping of the attempts has got, as a tuple of counts:
\* outcomes counted, total_attempts, record calls made, rows written.
Outcomes == stats.success_count + stats.failure_count
Progress == <<Outcomes, stats.total_attempts, Len(RecordCalls(calls)), Len(log)>>

\* C32: within an iteration the attempt returns, then the outcome is counted,
\* then total_attempts, then the tracker is fed, then the row is written and
\* flushed, then the sleep; nothing of attempt i + 1 happens before the row of
\* attempt i is written, and neither tracker nor log move while an attempt has
\* not returned.
C32_StepOrder ==
    LET n == attempts
    IN  /\ pc \in {"connect", "bootstrap", "insert", "except"} =>
              Progress = <<n - 1, n - 1, n - 1, n - 1>>
        /\ pc = "count" => Progress = <<n, n - 1, n - 1, n - 1>>
        /\ pc = "record" => Progress = <<n, n, n - 1, n - 1>>
        /\ pc = "log" => Progress = <<n, n, n, n - 1>>
        /\ pc \in {"sleep", "while", "tick", "ceiling"} \cup PostLoop =>
              Progress = <<n, n, n, n>>
        /\ pc \in LoopPcs \cup PostLoop =>
              /\ log_buffer = << >>
              /\ Len(log_file) = 1 + Len(log)

\* The second attempt has been fed to the tracker and its row is not written yet.
C32_Witness ==
    /\ pc = "log"
    /\ attempts = 2
    /\ Len(RecordCalls(calls)) = 2
    /\ Len(log) = 1
    /\ stats.total_attempts = 2

\* C33: the loop hands the tracker timestamps that never decrease: each record
\* call gets the reading taken at the top of its iteration, not earlier than
\* the previous one, and finalize gets a reading not earlier than any of them.
C33_TimestampsInOrder ==
    /\ \A i \in 1..Len(calls) : \A j \in i..Len(calls) :
          calls[i].time <= calls[j].time
    /\ pc \in {"connect", "bootstrap", "insert", "except", "count", "record"} =>
          /\ attempt_time = LocalTime(now)
          /\ \A i \in 1..Len(calls) : calls[i].time <= attempt_time

Up == downtime_tracker.current_start = None

\* C34: at the top of an iteration that follows an attempt, and when the loop
\* is left, the handle is established exactly when the last attempt succeeded,
\* and exactly then the tracker is Up.
C34_HandleOutcomeTracker ==
    (pc \in {"while", "tick", "ceiling", "finally"} /\ stats.total_attempts >= 1) =>
        /\ conn # None <=> success
        /\ success <=> Up
        /\ success <=> log[Len(log)].status = "success"
        /\ ~Up => conn = None

\* A success, then a failure: handle absent, tracker Down.
C34_Witness ==
    /\ pc = "while"
    /\ stats.total_attempts = 2
    /\ log[1].status = "success"
    /\ ~success
    /\ conn = None
    /\ ~Up

\* C35: there are never more intervals than failed attempts, and once finalize
\* has run there is no interval exactly when no attempt failed; the summary
\* says "no downtime" in exactly that case.
C35_IntervalsVersusFailures ==
    /\ Len(downtime_tracker.intervals) <= stats.failure_count
    /\ pc \in Finalized =>
          (downtime_tracker.intervals = << >> <=> stats.failure_count = 0)
    /\ summary # << >> =>
          /\ summary[1].no_downtime <=> stats.failure_count = 0
          /\ summary[1].failed = stats.failure_count
          /\ Len(summary[1].intervals) <= summary[1].failed

\* Two failures in a row ended the run: one interval, reported.
C35_Witness ==
    /\ pc = "done"
    /\ stats.failure_count = 2
    /\ stats.success_count = 0
    /\ Len(summary[1].intervals) = 1
    /\ ~summary[1].no_downtime

AfterTruncate == {"logclose", "connclose", "summarize", "done", "raised", "exit"}

\* C36: at the end of the run truncate_table is issued exactly when the loop
\* ended with a handle, which is when the last attempt succeeded; with no
\* handle nothing is truncated and no connection is opened; and when the
\* truncation raises, close() is still called on the handle unless closing the
\* log file raised first.
C36_TruncateAtEnd ==
    /\ truncated \subseteq {main_conn, conn} \ {None}
    /\ pc \notin AfterTruncate => (conn = None \/ conn \notin truncated)
    /\ pc \in AfterTruncate =>
          /\ conn # None <=> conn \in truncated
          /\ conn # None <=> (stats.total_attempts >= 1 /\ success)
          /\ conn = None => (Established = {} /\ ~truncate_raised)
          /\ conn # None => Established \subseteq {conn}
    /\ truncate_raised =>
          /\ pc \in AfterTruncate
          /\ conn \in truncated
          /\ pc = "raised" => exc \in {"log close failed", "connection close failed"}
          /\ (pc \in {"summarize", "done", "exit"} \/
              (pc = "raised" /\ exc = "connection close failed")) =>
                conn \in closed

\* The truncation raised; the handle was closed all the same and the run ended.
C36_Witness ==
    /\ truncate_raised
    /\ pc = "done"
    /\ conn \in truncated
    /\ conn \in closed
    /\ summary # << >>

\* C37: a ceiling of 0 stops nothing: the loop is left without a signal only
\* when a non-zero ceiling was reached, and with a ceiling of 0 the iteration
\* that checks the ceiling always goes on to an attempt.
C37_ZeroIsNoCeiling ==
    /\ (pc \in PostLoop /\ signalled_at \in {"", "after loop"}) =>
          (Truthy(max_attempts) /\ stats.total_attempts = max_attempts)
    /\ (max_attempts = 0 /\ pc \in PostLoop) => stop_flag
    /\ (max_attempts = 0 /\ pc \in {"connect", "bootstrap", "insert", "except"}) =>
          attempts = iterations
    /\ (max_attempts = 0 /\ pc \in LoopPcs /\ ~stop_flag /\ iterations < MaxIter) =>
          ENABLED ProgramStep

\* Ceiling 0, no signal: as many attempts as the model lets the loop make.
C37_Witness ==
    /\ max_attempts = 0
    /\ ~stop_flag
    /\ pc = "while"
    /\ stats.total_attempts = MaxIter

\* ------------------------------------------------ the automated rebase tests

MaxAdd == 3
MaxCycles == 2

Last(q) == q[Len(q)]

\* git rev-list --count <from>..<to>: the commits reachable from <to> that are
\* not reachable from <from>.
rev_list_count(from, to) == Cardinality(Range(to) \ Range(from))

\* What a ref names in the enterprise repository.
Resolve(repo, ref) ==
    CASE ref = "HEAD" -> repo.enterprise
      [] ref = "community/main" -> repo.fetched

\* test_helpers.py, get_git_state (lines 55-91) on the enterprise repository:
\* ahead_count is git rev-list --count {ref}..HEAD (line 81).
get_git_state(repo, ref) ==
    [commits |-> repo.enterprise,
     head_sha |-> Last(repo.enterprise),
     is_clean |-> repo.is_clean,
     ahead_count |-> rev_list_count(Resolve(repo, ref), repo.enterprise)]

\* test_helpers.py, validate_rebase_result (lines 117-148).
validate_rebase_result(initial_enterprise_state, final_enterprise_state, community_commits_added) ==
    LET enterprise_patches_before == initial_enterprise_state.ahead_count
        enterprise_patches_after == final_enterprise_state.ahead_count
        expected_total_patches ==
            enterprise_patches_before + community_commits_added
        patches_preserved == enterprise_patches_after = expected_total_patches
        clean_state == final_enterprise_state.is_clean
        head_moved ==
            final_enterprise_state.head_sha # initial_enterprise_state.head_sha
    IN  [test_name |-> "Rebase Validation",
         passed |-> /\ patches_preserved
                    /\ clean_state
                    /\ (IF community_commits_added > 0 THEN head_moved ELSE TRUE)]

\* A test that stopped early (lines 74, 82).
Failed(name) == [test_name |-> name, passed |-> FALSE]

\* setup_repos.py, add_community_commits (lines 139-160): count new commits on
\* the community repository, pushed to its origin.
add_community_commits(repo, count) ==
    [repo EXCEPT !.community =
        @ \o [i \in 1..count |-> Commit("c", Len(repo.community) + i, 0)]]

CommunityPart(h) == SelectSeq(h, LAMBDA c : c[1] = "c")
EnterprisePart(h) == SelectSeq(h, LAMBDA c : c[1] = "e")

\* Community commits the enterprise repository does not have yet.
Pending(repo) == Len(repo.community) - Len(CommunityPart(repo.enterprise))

\* rebase-community-batch.sh --skip-validation --max-commits N, run at lines
\* 48-49.  The script is not among the sources; what is taken from it is that
\* it fetches community, puts the enterprise commits on top of j more community
\* commits (rewriting them when j > 0) and leaves the work tree clean or not.
rebase_community_batch(repo, j, clean) ==
    LET base == Len(CommunityPart(repo.enterprise)) + j
        gen == repo.rebases + 1
        patches == EnterprisePart(repo.enterprise)
    IN  IF j = 0
        THEN [repo EXCEPT !.fetched = repo.community, !.is_clean = clean]
        ELSE [repo EXCEPT
                !.fetched = repo.community,
                !.enterprise =
                    SubSeq(repo.community, 1, base) \o
                    [i \in 1..Len(patches) |-> Commit("e", patches[i][2], gen)],
                !.is_clean = clean,
                !.rebases = gen]

testVars == <<pc, repos, harness>>
nonTestVars == <<stop_flag, max_attempts, interval, stats, downtime_tracker,
                 conn, insert_stmt, bootstrap_attempted, success, error_message,
                 exc, attempt_time, duration, sleep_time, log, summary, now,
                 next_conn, closed, ensured, truncated, calls, iterations,
                 attempts, signalled_at, create_table_only, main_conn,
                 exit_status, close_raised, log_file, log_buffer, log_open,
                 runs, truncate_raised>>

\* A test function of test_rebase_automated.py right after setup_test_scenario
\* (lines 70, 103, 173).
RebaseInit ==
    /\ pc = "rebase_add"
    /\ repos = setup_test_repos
    /\ harness = [count |-> 0, synced |-> 0, before |-> << >>, after |-> << >>,
                  results |-> << >>, cycle |-> 1]
    /\ stop_flag = FALSE
    /\ max_attempts = None
    /\ interval = 1
    /\ stats = [total_attempts |-> 0, success_count |-> 0, failure_count |-> 0]
    /\ downtime_tracker = NewTracker
    /\ conn = None
    /\ insert_stmt = FALSE
    /\ bootstrap_attempted = FALSE
    /\ success = FALSE
    /\ error_message = NoneText
    /\ exc = NoneText
    /\ attempt_time = None
    /\ duration = 0
    /\ sleep_time = None
    /\ log = << >>
    /\ summary = << >>
    /\ now = 0
    /\ next_conn = 1
    /\ closed = {}
    /\ ensured = << >>
    /\ truncated = {}
    /\ calls = << >>
    /\ iterations = 0
    /\ attempts = 0
    /\ signalled_at = ""
    /\ create_table_only = FALSE
    /\ main_conn = None
    /\ exit_status = None
    /\ close_raised = FALSE
    /\ log_file = << >>
    /\ log_buffer = << >>
    /\ log_open = FALSE
    /\ runs = 0
    /\ truncate_raised = FALSE

\* lines 73-75 (106-108, 176-178, 190-192): add_community_commits(k), or the
\* test ends with a failed setup.
RAdd ==
    /\ pc = "rebase_add"
    /\ \E k \in 1..MaxAdd :
        \/ /\ repos' = add_community_commits(repos, k)
           /\ harness' = [harness EXCEPT !.count = k]
           /\ pc' = "rebase_before"
        \/ /\ harness' = [harness EXCEPT
                            !.count = k,
                            !.results = Append(@, Failed("Setup"))]
           /\ pc' = "rebase_done"
           /\ UNCHANGED repos
    /\ UNCHANGED nonTestVars

\* line 78: enterprise_before = get_git_state(ENTERPRISE_REPO)
RBefore ==
    /\ pc = "rebase_before"
    /\ harness' = [harness EXCEPT !.before = <<get_git_state(repos, "HEAD")>>]
    /\ pc' = "rebase_sync"
    /\ UNCHANGED repos
    /\ UNCHANGED nonTestVars

\* lines 81-83: sync_commits(k); a non-zero exit ends the test.
RSync ==
    /\ pc = "rebase_sync"
    /\ \/ \E j \in 0..Min(harness.count, Pending(repos)), clean \in BOOLEAN :
            /\ repos' = rebase_community_batch(repos, j, clean)
            /\ harness' = [harness EXCEPT !.synced = j]
            /\ pc' = "rebase_after"
       \/ /\ harness' = [harness EXCEPT !.results = Append(@, Failed("Sync"))]
          /\ pc' = "rebase_done"
          /\ UNCHANGED repos
    /\ UNCHANGED nonTestVars

\* line 86: enterprise_after = get_git_state(ENTERPRISE_REPO)
RAfter ==
    /\ pc = "rebase_after"
    /\ harness' = [harness EXCEPT !.after = <<get_git_state(repos, "HEAD")>>]
    /\ pc' = "rebase_validate"
    /\ UNCHANGED repos
    /\ UNCHANGED nonTestVars

\* lines 88-91: validate and return; test_multiple_sync_cycles goes on to a
\* second cycle (lines 186-190).
RValidate ==
    /\ pc = "rebase_validate"
    /\ \E more \in BOOLEAN :
        /\ more => harness.cycle < MaxCycles
        /\ harness' = [harness EXCEPT
                         !.results = Append(@,
                             validate_rebase_result(harness.before[1],
                                                    harness.after[1],
                                                    harness.count)),
                         !.cycle = IF more THEN @ + 1 ELSE @]
        /\ pc' = IF more THEN "rebase_add" ELSE "rebase_done"
    /\ UNCHANGED repos
    /\ UNCHANGED nonTestVars

RebaseNext ==
    \/ RAdd
    \/ RBefore
    \/ RSync
    \/ RAfter
    \/ RValidate

RebaseSpec == RebaseInit /\ [][RebaseNext]_vars

\* A validation has just been appended for the cycle whose locals are held.
Validated ==
    /\ pc \in {"rebase_add", "rebase_done"}
    /\ harness.results # << >>
    /\ Last(harness.results).test_name = "Rebase Validation"

\* C38: when the sync brought in all k >= 1 added commits and left the
\* enterprise repository clean with a moved HEAD, the "Rebase Validation"
\* result is passed, the ahead_count after the sync being the one before
\* plus k.
C38_RebaseValidationPasses ==
    (/\ Validated
     /\ harness.count >= 1
     /\ harness.synced = harness.count
     /\ harness.after[1].is_clean
     /\ harness.after[1].head_sha # harness.before[1].head_sha) =>
        /\ Last(harness.results).passed
        /\ harness.after[1].ahead_count =
              harness.before[1].ahead_count + harness.count

\* ----------------------------------------------------- the manual test runner

MaxCommits == 9
MaxPatches == 4
MaxRebases == 2

\* Python's int() on the one-character inputs the menu accepts.
int(s) ==
    CASE s = "1" -> 1 [] s = "2" -> 2 [] s = "3" -> 3 [] s = "4" -> 4
      [] s = "5" -> 5 [] s = "6" -> 6 [] s = "7" -> 7 [] s = "8" -> 8
      [] s = "9" -> 9

\* run_manual_test.py lines 76-81: what the menu says options 2-4 add and
\* options 5-7 sync.
MenuSaysAdd == [c \in {"2", "3", "4"} |->
                   CASE c = "2" -> 1 [] c = "3" -> 3 [] c = "4" -> 5]
MenuSaysSync == [c \in {"5", "6", "7"} |->
                   CASE c = "5" -> 1 [] c = "6" -> 3 [] c = "7" -> 5]

\* run_manual_test.py, main, at the prompt of line 86 with the test
\* repositories as setup_repos.py made them.
MenuInit ==
    /\ pc = "menu"
    /\ repos = setup_test_repos
    /\ harness = [choice |-> "", count |-> 0, max_commits |-> 0, added |-> 0,
                  synced |-> 0, returncode |-> 0]
    /\ stop_flag = FALSE
    /\ max_attempts = None
    /\ interval = 1
    /\ stats = [total_attempts |-> 0, success_count |-> 0, failure_count |-> 0]
    /\ downtime_tracker = NewTracker
    /\ conn = None
    /\ insert_stmt = FALSE
    /\ bootstrap_attempted = FALSE
    /\ success = FALSE
    /\ error_message = NoneText
    /\ exc = NoneText
    /\ attempt_time = None
    /\ duration = 0
    /\ sleep_time = None
    /\ log = << >>
    /\ summary = << >>
    /\ now = 0
    /\ next_conn = 1
    /\ closed = {}
    /\ ensured = << >>
    /\ truncated = {}
    /\ calls = << >>
    /\ iterations = 0
    /\ attempts = 0
    /\ signalled_at = ""
    /\ create_table_only = FALSE
    /\ main_conn = None
    /\ exit_status = None
    /\ close_raised = FALSE
    /\ log_file = << >>
    /\ log_buffer = << >>
    /\ log_open = FALSE
    /\ runs = 0
    /\ truncate_raised = FALSE

\* show_git_state (lines 28-45): prints, and fetches community.
show_git_state(repo) == [repo EXCEPT !.fetched = repo.community]

\* lines 88-89: option 1.
MShow ==
    /\ pc = "menu"
    /\ repos' = show_git_state(repos)
    /\ harness' = [harness EXCEPT !.choice = "1"]
    /\ UNCHANGED pc
    /\ UNCHANGED nonTestVars

\* lines 91-99: options 2, 3 and 4 run setup_repos.py add-commits int(choice);
\* a failing run may have made some of the commits.
MAddCommits ==
    /\ pc = "menu"
    /\ \E choice \in {"2", "3", "4"} :
        LET count == int(choice)
        IN  /\ Len(repos.community) + count <= MaxCommits
            /\ \/ /\ repos' = show_git_state(add_community_commits(repos, count))
                  /\ harness' = [harness EXCEPT !.choice = choice,
                                                !.count = count,
                                                !.added = count,
                                                !.returncode = 0]
               \/ \E made \in 0..(count - 1) :
                  /\ repos' = add_community_commits(repos, made)
                  /\ harness' = [harness EXCEPT !.choice = choice,
                                                !.count = count,
                                                !.added = made,
                                                !.returncode = 1]
    /\ UNCHANGED pc
    /\ UNCHANGED nonTestVars

\* lines 101-117: options 5, 6 and 7 fetch, run the rebase script with
\* --max-commits 1, 3 or 5, and show the state.
MSync ==
    /\ pc = "menu"
    /\ \E choice \in {"5", "6", "7"} :
        LET max_commits == CASE choice = "5" -> 1
                             [] choice = "6" -> 3
                             [] choice = "7" -> 5
        IN  \E j \in 0..Min(max_commits, Pending(repos)), clean \in BOOLEAN,
               returncode \in {0, 1} :
                /\ j > 0 => repos.rebases < MaxRebases
                /\ returncode = 1 => j = 0
                /\ repos' = show_git_state(rebase_community_batch(repos, j, clean))
                /\ harness' = [harness EXCEPT !.choice = choice,
                                              !.max_commits = max_commits,
                                              !.synced = j,
                                              !.returncode = returncode]
    /\ UNCHANGED pc
    /\ UNCHANGED nonTestVars

\* lines 119-127: option 8 commits a change to README.md in the enterprise
\* repository.
MConflict ==
    /\ pc = "menu"
    /\ Len(EnterprisePart(repos.enterprise)) < MaxPatches
    /\ repos' = show_git_state(
          [repos EXCEPT !.enterprise =
              Append(@, Commit("e", Len(EnterprisePart(@)) + 1, repos.rebases))])
    /\ harness' = [harness EXCEPT !.choice = "8"]
    /\ UNCHANGED pc
    /\ UNCHANGED nonTestVars

\* lines 129-131: option 9.
MExit ==
    /\ pc = "menu"
    /\ harness' = [harness EXCEPT !.choice = "9"]
    /\ pc' = "menu_done"
    /\ UNCHANGED repos
    /\ UNCHANGED nonTestVars

\* lines 133-134: anything else.
MInvalid ==
    /\ pc = "menu"
    /\ harness' = [harness EXCEPT !.choice = "?"]
    /\ UNCHANGED <<pc, repos>>
    /\ UNCHANGED nonTestVars

MenuNext ==
    \/ MShow
    \/ MAddCommits
    \/ MSync
    \/ MConflict
    \/ MExit
    \/ MInvalid

MenuSpec == MenuInit /\ [][MenuNext]_vars

\* C39: options 2, 3 and 4 add 1, 3 and 5 commits to the community repository,
\* as the menu says, and options 5, 6 and 7 sync at most 1, 3 and 5.
C39_MenuDoesWhatItSays ==
    /\ (harness.choice \in {"2", "3", "4"} /\ harness.returncode = 0) =>
          harness.added = MenuSaysAdd[harness.choice]
    /\ harness.choice \in {"5", "6", "7"} =>
          /\ harness.max_commits = MenuSaysSync[harness.choice]
          /\ harness.synced <= MenuSaysSync[harness.choice]

====
